---- MODULE Spec2Model ----
(***************************************************************************)
(* A model of the rustorrent swarm engine: the piece scheduler             *)
(* (src/client/pieces.rs) and the peer connection set with its reader,     *)
(* writer and dispatcher tasks (src/client/mod.rs).                        *)
(*                                                                         *)
(* Indices are those of the source: pieces and blocks are functions over   *)
(* 0..n-1.  An Option is a sequence: <<>> is None, a non-empty tuple is    *)
(* Some.  A panic (an out-of-range index, an unwrap of None) leaves the    *)
(* data untouched and is recorded in a flag of the task that ran it.       *)
(***************************************************************************)
EXTENDS Integers, Sequences, FiniteSets, TLC

\* pub const BLOCK_SIZE: u32 = 2 << 13
BLOCK_SIZE == 16384

\* Bounds of the torrents the scheduler specification draws: pieces, blocks of a full
\* piece, blocks of the torrent.
MaxPieces == 2
MaxBlocksPerPiece == 2
MaxBlocks == 3

\* The peer identities (20-byte ids in the source).
PeerIds == {"A", "B"}

NoPeer == "-"

\* A torrent of three one-block pieces: one piece to complete and two to choose from.
RarestTorrent == [num_hashes |-> 3, piece_length |-> BLOCK_SIZE, total_size |-> 3 * BLOCK_SIZE]

\* The torrent the engine specification downloads: two pieces of one block each.
EngineTorrent == [num_hashes |-> 2, piece_length |-> BLOCK_SIZE, total_size |-> 2 * BLOCK_SIZE]

\* connect_to_peers(min_connections): download() passes 30; the model's swarm has
\* Cardinality(PeerIds) peers, and the target is scaled to it so that download()
\* gets past connect_to_peers.
min_connections == Cardinality(PeerIds)

\* The frames the peers send, over all peers, in the engine specification.
MaxFrames == 2

\* The frames the peers send, over all peers, in the dispatcher specification.
MaxDispatched == 3

\* The socket faults over all peers: WouldBlock results and hard errors of a send, hard
\* errors of a receive.
MaxFaults == 1

VARIABLES
    pieces,         \* PieceScheduler.pieces: 0..n-1 -> Piece
    any_complete,   \* PieceScheduler.any_complete
    sched_panic,    \* a direct scheduler call panicked (scheduler specification)
    last_ret,       \* what the last schedule_piece returned: <<>> or <<index, begin, length>>
    req_from,       \* history: <<index, begin>> -> the peer schedule_piece handed it to and
                    \* no set_block(index, begin) since, or NoPeer
    dup_handout,    \* history: schedule_piece returned a block that was still handed out
    set_done,       \* history: the <<index, begin>> set_block has been called for
    phase,          \* download(): "connect" (connect_to_peers) or "run" (the four tasks)
    peers,          \* Client.peers: peer id -> PeerState
    send_queue,     \* Client.send_queue: items [peer, id, payload, seq]
    receive_queue,  \* Client.receive_queue: items [peer, id, payload, seq]
    stream,         \* per peer, the frames written to its socket, in order
    arrivals,       \* the frames read off the sockets so far; a frame's seq is its number
    faults,         \* the socket faults so far
    out_next,       \* the outbound messages enqueued so far; a message's seq is its number
    disp_pc,        \* process_messages: [pc, peer]
    reader_pc,      \* retrieve_messages: [pc, peer]
    peers_to_remove,\* retrieve_messages: peers_to_remove (never cleared)
    writer_pc,      \* send_messages: [pc, peer]
    processed,      \* history: per peer, the seq of the frames the dispatcher dequeued
    choke_hist,     \* history: per peer, the last choke-state message processed
    evicted,        \* history: the peers removed from the peer map
    evicted_known,  \* history: those of them that were in a piece's peer set then
    discarded,      \* history: the queues ("inbound", "outbound") a message of a peer that
                    \* had left the map was dequeued from
    torrent,        \* the metainfo PieceScheduler::new was given:
                    \* [num_hashes, piece_length, total_size]
    wrong,          \* history: the <<index, begin>> whose last set_block carried bytes
                    \* that are not the torrent's
    tx,             \* a send_message call and the bytes its socket has taken
    rx,             \* a receive_message call and the bytes left on its socket
    fm,             \* a FileManager and the contents of its files
    conn,           \* connect_to_peers: its connect tasks, one per peer of the tracker
    sock,           \* the peers' sockets: the frames waiting to be read, the stalled peers
    bitf,           \* a Bitfield and the bytes to_bytes returned for it
    benc,           \* a bencoded input, what parse_bencode made of it and its encoding
    clock           \* keep_alive: the time in seconds and each peer's last_touch

schedVars == <<pieces, any_complete, sched_panic, last_ret, req_from, dup_handout, set_done>>

engineVars == <<phase, peers, send_queue, receive_queue, stream, arrivals, faults,
                out_next,
                disp_pc, reader_pc, peers_to_remove, writer_pc, processed, choke_hist,
                evicted, evicted_known, discarded>>

ioVars == <<tx, rx, fm, conn, sock, bitf, benc, clock>>

vars == <<schedVars, engineVars, torrent, wrong, ioVars>>

-----------------------------------------------------------------------------
(* Helpers *)

Min(a, b) == IF a < b THEN a ELSE b

\* u32::div_ceil
div_ceil(a, b) == (a + b - 1) \div b

\* A Vec as a function over 0..len-1, from a sequence
ZeroBased(s) == [j \in 0..(Len(s) - 1) |-> s[j + 1]]

VecLen(v) == Cardinality(DOMAIN v)

-----------------------------------------------------------------------------
(* PieceScheduler::new.  Sizes are u32 in the source (total_size as u32); the  *)
(* torrents modelled stay below 2^31, where the casts change nothing.        *)

NewBlock(offset, length) ==
    [begin |-> offset, length |-> length, requested |-> FALSE, completed |-> FALSE]

\* The inner while loop of new: the blocks of one piece and the bytes left after it.
RECURSIVE NewBlocks(_, _, _, _)
NewBlocks(offset, remaining_size, piece_length, blocks) ==
    IF offset < Min(piece_length, remaining_size)
    THEN LET length == IF remaining_size < BLOCK_SIZE THEN remaining_size ELSE BLOCK_SIZE
         IN  NewBlocks(offset + length, remaining_size - length, piece_length,
                       Append(blocks, NewBlock(offset, length)))
    ELSE [blocks |-> blocks, remaining_size |-> remaining_size]

\* The outer for loop of new, over the piece hashes.
RECURSIVE NewPieces(_, _, _, _, _)
NewPieces(i, num_hashes, remaining_size, piece_length, acc) ==
    IF i >= num_hashes THEN acc
    ELSE LET r == NewBlocks(0, remaining_size, piece_length, <<>>)
             piece == [index |-> i, blocks |-> ZeroBased(r.blocks),
                       completed |-> FALSE, peers |-> {}]
         IN  NewPieces(i + 1, num_hashes, r.remaining_size, piece_length, Append(acc, piece))

PieceSchedulerNew(num_hashes, piece_length, total_size) ==
    ZeroBased(NewPieces(0, num_hashes, total_size, piece_length, <<>>))

-----------------------------------------------------------------------------
(* PieceScheduler methods, as functions of the piece vector *)

\* to_bitfield: Bitfield as 0..n-1 -> BOOLEAN
to_bitfield(ps) == [i \in DOMAIN ps |-> ps[i].completed]

IdleBlock(b) == ~b.requested /\ ~b.completed

\* the filter of the warm-up branch of schedule_piece
WarmupCandidates(ps, peer_id) ==
    {i \in DOMAIN ps : /\ ~ps[i].completed
                       /\ \E j \in DOMAIN ps[i].blocks : ~ps[i].blocks[j].requested
                       /\ peer_id \in ps[i].peers}

\* the filter of get_rarest_noncompleted_piece
RarestCandidates(ps, peer_id) ==
    {i \in DOMAIN ps : /\ ~ps[i].completed
                       /\ \E j \in DOMAIN ps[i].blocks : IdleBlock(ps[i].blocks[j])
                       /\ peer_id \in ps[i].peers}

\* Iterator::min_by_key returns the first of several equally minimum elements.
MinByKeyPeers(ps, cand) ==
    CHOOSE i \in cand :
        \A k \in cand : \/ Cardinality(ps[i].peers) < Cardinality(ps[k].peers)
                        \/ (Cardinality(ps[i].peers) = Cardinality(ps[k].peers) /\ i <= k)

\* get_rarest_noncompleted_piece: Option<index>
get_rarest_noncompleted_piece(ps, peer_id) ==
    LET cand == RarestCandidates(ps, peer_id)
    IN  IF cand = {} THEN <<>> ELSE <<MinByKeyPeers(ps, cand)>>

\* the pieces schedule_piece may choose: any warm-up candidate (rand::random) before
\* any_complete, the rarest one after; {} when it chooses None
ChosenPieces(ps, any, peer_id) ==
    IF ~any THEN WarmupCandidates(ps, peer_id)
    ELSE LET r == get_rarest_noncompleted_piece(ps, peer_id)
         IN  IF r = <<>> THEN {} ELSE {r[1]}

\* piece.blocks.iter().find(|b| !b.requested && !b.completed): Option<block position>
FindIdleBlock(piece) ==
    LET idle == {j \in DOMAIN piece.blocks : IdleBlock(piece.blocks[j])}
    IN  IF idle = {} THEN <<>> ELSE <<CHOOSE j \in idle : \A k \in idle : j <= k>>

\* the block position set_requested and set_block address
BlockBucket(begin) == div_ceil(begin, BLOCK_SIZE)

\* a set_requested that marks a copy: the block of the scheduler stays idle
set_requested_lost(ps, index, begin) == ps

\* set_requested
set_requested(ps, index, begin) ==
    [ps EXCEPT ![index].blocks[BlockBucket(begin)].requested = TRUE]

\* schedule_piece with piece i chosen: [panic, ret, pieces]
ScheduleChosen(ps, i) ==
    LET found == FindIdleBlock(ps[i])
    IN  IF found = <<>>
        THEN [panic |-> TRUE, ret |-> <<>>, pieces |-> ps]          \* .unwrap() on None
        ELSE LET b == ps[i].blocks[found[1]]
             IN  IF BlockBucket(b.begin) \notin DOMAIN ps[i].blocks
                 THEN [panic |-> TRUE, ret |-> <<>>, pieces |-> ps]
                 ELSE [panic |-> FALSE, ret |-> <<i, b.begin, b.length>>,
                       pieces |-> set_requested(ps, i, b.begin)]

\* schedule_piece: the set of its possible outcomes
schedule_piece(ps, any, peer_id) ==
    LET chosen == ChosenPieces(ps, any, peer_id)
    IN  IF chosen = {} THEN {[panic |-> FALSE, ret |-> <<>>, pieces |-> ps]}
        ELSE {ScheduleChosen(ps, i) : i \in chosen}

\* set_block: [panic, pieces]; the bytes go to the file manager
set_block(ps, index, begin) ==
    IF index \notin DOMAIN ps \/ BlockBucket(begin) \notin DOMAIN ps[index].blocks
    THEN [panic |-> TRUE, pieces |-> ps]
    ELSE [panic |-> FALSE,
          pieces |-> [ps EXCEPT ![index].blocks[BlockBucket(begin)].completed = TRUE]]

\* add_peer_count: bitfield is 0..m-1 -> BOOLEAN; pieces[i] panics when i is out of range
add_peer_count(ps, peer_id, bitfield) ==
    IF \E i \in DOMAIN bitfield : bitfield[i] /\ i \notin DOMAIN ps
    THEN [panic |-> TRUE, pieces |-> ps]
    ELSE [panic |-> FALSE,
          pieces |-> [i \in DOMAIN ps |->
                        IF i \in DOMAIN bitfield /\ bitfield[i]
                        THEN [ps[i] EXCEPT !.peers = @ \cup {peer_id}]
                        ELSE ps[i]]]

\* add_peer_have
add_peer_have(ps, peer_id, i) ==
    IF i \notin DOMAIN ps
    THEN [panic |-> TRUE, pieces |-> ps]
    ELSE [panic |-> FALSE, pieces |-> [ps EXCEPT ![i].peers = @ \cup {peer_id}]]

\* remove_peer_count
\* a remove_peer_count that leaves the peer sets as they are
remove_peer_count_kept(ps, peer_id) == ps

remove_peer_count(ps, peer_id) ==
    [i \in DOMAIN ps |-> [ps[i] EXCEPT !.peers = @ \ {peer_id}]]

\* is_interested
is_interested(ps, bitfield) ==
    \E i \in DOMAIN bitfield : i \in DOMAIN ps /\ ~ps[i].completed /\ bitfield[i]

-----------------------------------------------------------------------------
(* History kept beside the scheduler *)

BlockKeys(ps) ==
    UNION {{<<i, ps[i].blocks[j].begin>> : j \in DOMAIN ps[i].blocks} : i \in DOMAIN ps}

\* after schedule_piece returned ret to peer_id
HandOut(rf, ret, peer_id) ==
    IF ret = <<>> THEN rf ELSE [rf EXCEPT ![<<ret[1], ret[2]>>] = peer_id]

IsDupHandout(rf, ret) == ret # <<>> /\ rf[<<ret[1], ret[2]>>] # NoPeer

\* after set_block(index, begin) returned
Satisfy(rf, index, begin) ==
    IF <<index, begin>> \in DOMAIN rf THEN [rf EXCEPT ![<<index, begin>>] = NoPeer] ELSE rf

-----------------------------------------------------------------------------
(* The state the engine is in while the scheduler is driven directly *)

EngineIdle ==
    /\ phase = "off"
    /\ peers = <<>>
    /\ send_queue = <<>>
    /\ receive_queue = <<>>
    /\ stream = [p \in PeerIds |-> <<>>]
    /\ arrivals = 0
    /\ faults = 0
    /\ out_next = 0
    /\ disp_pc = [pc |-> "loop", peer |-> NoPeer]
    /\ reader_pc = [pc |-> "loop", peer |-> NoPeer]
    /\ peers_to_remove = {}
    /\ writer_pc = [pc |-> "loop", peer |-> NoPeer]
    /\ processed = [p \in PeerIds |-> <<>>]
    /\ choke_hist = [p \in PeerIds |-> "none"]
    /\ evicted = {}
    /\ evicted_known = {}
    /\ discarded = {}

\* no send_message, receive_message or FileManager call is under way
IoIdle ==
    /\ tx = <<>> /\ rx = <<>> /\ fm = <<>> /\ conn = <<>> /\ sock = <<>> /\ bitf = <<>>
    /\ benc = <<>> /\ clock = <<>>

SchedStart(ps) ==
    /\ pieces = ps
    /\ any_complete = FALSE
    /\ sched_panic = FALSE
    /\ last_ret = <<>>
    /\ req_from = [k \in BlockKeys(ps) |-> NoPeer]
    /\ dup_handout = FALSE
    /\ set_done = {}

-----------------------------------------------------------------------------
(* The scheduler specification: PieceScheduler::new on any torrent of the    *)
(* bounds or on RarestTorrent, then any sequence of calls of its public      *)
(* methods.                                                                  *)

PieceLengths == {k * BLOCK_SIZE : k \in 1..MaxBlocksPerPiece}

\* the byte lengths of a last piece: full, one byte, a block and a byte
LastPieceSizes(piece_length) ==
    {piece_length, 1} \cup {n \in {BLOCK_SIZE + 1} : n < piece_length}

Torrents ==
    {[num_hashes |-> n, piece_length |-> pl, total_size |-> (n - 1) * pl + last] :
        n \in 1..MaxPieces, pl \in PieceLengths, last \in UNION {LastPieceSizes(l) : l \in PieceLengths}}

SchedInit ==
    /\ \E t \in Torrents \cup {RarestTorrent} :
          /\ t.total_size > (t.num_hashes - 1) * t.piece_length
          /\ t.total_size <= t.num_hashes * t.piece_length
          /\ LET ps == PieceSchedulerNew(t.num_hashes, t.piece_length, t.total_size)
             IN  /\ t \in Torrents => Cardinality(BlockKeys(ps)) <= MaxBlocks
                 /\ SchedStart(ps)
          /\ torrent = t
    /\ wrong = {}
    /\ EngineIdle
    /\ IoIdle

\* schedule_piece(peer_id)
CallSchedulePiece(peer_id) ==
    /\ ~sched_panic
    /\ \E o \in schedule_piece(pieces, any_complete, peer_id) :
          /\ pieces' = o.pieces
          /\ sched_panic' = o.panic
          /\ last_ret' = o.ret
          /\ req_from' = HandOut(req_from, o.ret, peer_id)
          /\ dup_handout' = (dup_handout \/ IsDupHandout(req_from, o.ret))
    /\ UNCHANGED <<any_complete, set_done, engineVars>>
    /\ UNCHANGED <<torrent, wrong, ioVars>>

\* set_block(index, begin, data) for a block of the torrent; good: data is the
\* torrent's bytes of that block
CallSetBlock(index, begin, good) ==
    /\ ~sched_panic
    /\ LET o == set_block(pieces, index, begin)
       IN  /\ pieces' = o.pieces
           /\ sched_panic' = o.panic
           /\ req_from' = IF o.panic THEN req_from ELSE Satisfy(req_from, index, begin)
           /\ set_done' = IF o.panic THEN set_done ELSE set_done \cup {<<index, begin>>}
           /\ wrong' = IF o.panic THEN wrong
                       ELSE IF good THEN wrong \ {<<index, begin>>}
                       ELSE wrong \cup {<<index, begin>>}
    /\ UNCHANGED <<any_complete, last_ret, dup_handout, engineVars>>
    /\ UNCHANGED <<torrent, ioVars>>

\* add_peer_count(peer_id, bitfield)
CallAddPeerCount(peer_id, bitfield) ==
    /\ ~sched_panic
    /\ LET o == add_peer_count(pieces, peer_id, bitfield)
       IN  pieces' = o.pieces /\ sched_panic' = o.panic
    /\ UNCHANGED <<any_complete, last_ret, req_from, dup_handout, set_done, engineVars>>
    /\ UNCHANGED <<torrent, wrong, ioVars>>

\* add_peer_have(peer_id, i)
CallAddPeerHave(peer_id, i) ==
    /\ ~sched_panic
    /\ LET o == add_peer_have(pieces, peer_id, i)
       IN  pieces' = o.pieces /\ sched_panic' = o.panic
    /\ UNCHANGED <<any_complete, last_ret, req_from, dup_handout, set_done, engineVars>>
    /\ UNCHANGED <<torrent, wrong, ioVars>>

\* remove_peer_count(peer_id)
CallRemovePeerCount(peer_id) ==
    /\ ~sched_panic
    /\ pieces' = remove_peer_count(pieces, peer_id)
    /\ UNCHANGED <<any_complete, sched_panic, last_ret, req_from, dup_handout, set_done,
                   engineVars>>
    /\ UNCHANGED <<torrent, wrong, ioVars>>

SchedNext ==
    \/ \E p \in PeerIds : CallSchedulePiece(p)
    \/ \E k \in BlockKeys(pieces), good \in BOOLEAN : CallSetBlock(k[1], k[2], good)
    \/ \E p \in PeerIds, bf \in [DOMAIN pieces -> BOOLEAN] : CallAddPeerCount(p, bf)
    \/ \E p \in PeerIds, i \in DOMAIN pieces : CallAddPeerHave(p, i)
    \/ \E p \in PeerIds : CallRemovePeerCount(p)

SpecSched == SchedInit /\ [][SchedNext]_vars

-----------------------------------------------------------------------------
(* Bitfield (src/client/bitfield.rs): a Vec<bool> as 0..n-1 -> BOOLEAN *)

BitfieldNew(size) == [i \in 0..(size - 1) |-> FALSE]

Pow2(k) == CASE k = 0 -> 1 [] k = 1 -> 2 [] k = 2 -> 4 [] k = 3 -> 8
             [] k = 4 -> 16 [] k = 5 -> 32 [] k = 6 -> 64 [] k = 7 -> 128

\* the inner loop of to_bytes over one chunk of 8: byte |= 1 << (7 - i)
RECURSIVE ChunkByte(_, _, _)
ChunkByte(bf, chunk, i) ==
    IF i >= 8 \/ 8 * chunk + i \notin DOMAIN bf THEN 0
    ELSE (IF bf[8 * chunk + i] THEN Pow2(7 - i) ELSE 0) + ChunkByte(bf, chunk, i + 1)

\* a to_bytes that leaves out the last chunk when it is not a full one
to_bytes_floor(bf) ==
    [c \in 1..(VecLen(bf) \div 8) |-> ChunkByte(bf, c - 1, 0)]

\* Bitfield::to_bytes
to_bytes(bf) ==
    [c \in 1..div_ceil(VecLen(bf), 8) |-> ChunkByte(bf, c - 1, 0)]

\* Bitfield::from_bytes(bytes, n): big-endian per byte, the first n bits
from_bytes(bytes, n) ==
    [i \in 0..(n - 1) |-> (bytes[(i \div 8) + 1] \div Pow2(7 - (i % 8))) % 2 = 1]

-----------------------------------------------------------------------------
(* Messages (src/client/message.rs) and the peers' frames *)

Message(id, payload) == [id |-> id, payload |-> payload]

\* MessageId::value
MessageIdValue ==
    [Choke |-> 0, Unchoke |-> 1, Interested |-> 2, NotInterested |-> 3, Have |-> 4,
     Bitfield |-> 5, Request |-> 6, Piece |-> 7, Cancel |-> 8, Port |-> 9, KeepAlive |-> 10]

value(id) == MessageIdValue[id]

\* MessageId::from_value is unreachable!() for a byte that is no id; such a byte is
\* written "Unknown" here
from_value_panics(id) == id \notin DOMAIN MessageIdValue

Tagged(peer_id, m, seq) == [peer |-> peer_id, id |-> m.id, payload |-> m.payload, seq |-> seq]

RequestMessage(ret) == Message("Request", ret)

NumPieces == VecLen(pieces)

\* The frames a peer may send: the payload of Have is <<index>>, of Piece <<index, begin>>
\* (followed by the block's bytes), of Bitfield its bytes (192 has bits 0 and 1 set,
\* 64 bit 1 only).
InboundFrames ==
    {Message("Choke", <<>>), Message("Unchoke", <<>>),
     Message("Have", <<0>>), Message("Have", <<NumPieces>>),
     Message("Bitfield", <<>>), Message("Bitfield", <<192>>),
     Message("Bitfield", <<192, 0>>), Message("Bitfield", <<64>>),
     Message("Piece", <<0, 0>>), Message("Piece", <<1, 0>>),
     Message("Interested", <<>>), Message("NotInterested", <<>>)}

\* Those of them the engine specification draws: the announcements that put a peer in
\* the piece's peer sets, the UNCHOKE that gets it a REQUEST, the BITFIELD that is too
\* short and gets it evicted by the dispatcher.
EngineFrames ==
    {Message("Unchoke", <<>>), Message("Have", <<0>>),
     Message("Bitfield", <<>>), Message("Bitfield", <<192>>)}

\* PeerState::new
PeerStateNew ==
    [bitfield |-> <<>>, am_choking |-> TRUE, am_interested |-> FALSE,
     peer_choking |-> TRUE, peer_interested |-> FALSE]

Remove(ps, peer_id) == [q \in (DOMAIN ps) \ {peer_id} |-> ps[q]]

Insert(ps, peer_id, st) == [q \in (DOMAIN ps) \cup {peer_id} |-> IF q = peer_id THEN st ELSE ps[q]]

KnownToScheduler(pcs, peer_id) == \E i \in DOMAIN pcs : peer_id \in pcs[i].peers

-----------------------------------------------------------------------------
(* The arms of process_messages.  Each gives the set of its outcomes:        *)
(* the peer map and piece vector it leaves, the messages it pushes on the    *)
(* send queue, whether it panicked, should_remove, the block schedule_piece  *)
(* returned and the <<index, begin>> set_block committed.                    *)

Outcome(ps, pcs) ==
    [peers |-> ps, pieces |-> pcs, out |-> <<>>, panic |-> FALSE, should_remove |-> FALSE,
     ret |-> <<>>, setblk |-> <<>>]

InterestMessage(pcs, bitfield) ==
    IF is_interested(pcs, bitfield) THEN Message("Interested", <<>>)
    ELSE Message("NotInterested", <<>>)

ArmChoke(ps, pcs, p) ==
    {Outcome([ps EXCEPT ![p].peer_choking = TRUE], pcs)}

\* `if !peer.read().await.peer_choking` of the Unchoke arm
UnchokeMayRequest(st) == ~st.peer_choking

ArmUnchoke(ps, pcs, any, p) ==
    LET ps1 == [ps EXCEPT ![p].peer_choking = FALSE]
    IN  {IF o.panic THEN [Outcome(ps1, pcs) EXCEPT !.panic = TRUE]
         ELSE IF o.ret # <<>>
         THEN [Outcome(ps1, o.pieces) EXCEPT
                  !.ret = o.ret,
                  !.out = IF UnchokeMayRequest(ps1[p]) THEN <<RequestMessage(o.ret)>> ELSE <<>>]
         ELSE [Outcome(ps1, pcs) EXCEPT !.out = <<Message("NotInterested", <<>>)>>]
           : o \in schedule_piece(pcs, any, p)}

ArmInterested_unchoke(ps, pcs, p) ==
    {Outcome([ps EXCEPT ![p].peer_interested = TRUE, ![p].am_choking = FALSE], pcs)}

ArmInterested(ps, pcs, p) ==
    {Outcome([ps EXCEPT ![p].peer_interested = TRUE], pcs)}

ArmNotInterested(ps, pcs, p) ==
    {Outcome([ps EXCEPT ![p].peer_interested = FALSE, ![p].am_choking = TRUE], pcs)}

ArmHave(ps, pcs, p, payload, num_pieces) ==
    IF Len(payload) < 1 THEN {[Outcome(ps, pcs) EXCEPT !.panic = TRUE]}
    ELSE
    LET piece_index == payload[1]
        bf0 == IF ps[p].bitfield = <<>> THEN BitfieldNew(num_pieces) ELSE ps[p].bitfield[1]
        set_err == piece_index \notin DOMAIN bf0
        bf1 == IF set_err THEN bf0 ELSE [bf0 EXCEPT ![piece_index] = TRUE]
        ps1 == [ps EXCEPT ![p].bitfield = <<bf1>>]
        h == add_peer_have(pcs, p, piece_index)
    IN  {[Outcome(ps1, h.pieces) EXCEPT
             !.should_remove = set_err,
             !.out = <<InterestMessage(pcs, bf1)>>,
             !.panic = h.panic]}

ArmBitfield(ps, pcs, p, payload, num_pieces) ==
    IF Len(payload) * 8 < num_pieces
    THEN {[Outcome(ps, pcs) EXCEPT !.should_remove = TRUE]}
    ELSE LET bitfield == from_bytes(payload, num_pieces)
             a == add_peer_count(pcs, p, bitfield)
         IN  {[Outcome([ps EXCEPT ![p].bitfield = <<bitfield>>], a.pieces) EXCEPT
                  !.out = <<InterestMessage(a.pieces, bitfield)>>]}

\* a Piece arm that takes every peer for unchoked
PieceSeesChoked_never(st) == FALSE

\* `if peer.peer_choking` of the Piece arm
PieceSeesChoked(st) == st.peer_choking

ArmPiece(ps, pcs, any, p, payload) ==
    IF Len(payload) < 2 THEN {[Outcome(ps, pcs) EXCEPT !.panic = TRUE]}
    ELSE
    LET index == payload[1]
        begin == payload[2]
        s == set_block(pcs, index, begin)
        done == [Outcome(ps, s.pieces) EXCEPT !.setblk = <<index, begin>>]
    IN  IF s.panic THEN {[Outcome(ps, pcs) EXCEPT !.panic = TRUE]}
        ELSE IF ps[p].bitfield = <<>> THEN {[done EXCEPT !.panic = TRUE]}    \* .unwrap()
        ELSE IF is_interested(s.pieces, ps[p].bitfield[1])
        THEN IF PieceSeesChoked(ps[p])
             THEN {[done EXCEPT !.out = <<Message("Interested", <<>>)>>]}
             ELSE {IF o.panic THEN [done EXCEPT !.panic = TRUE]
                   ELSE IF o.ret # <<>>
                   THEN [done EXCEPT !.pieces = o.pieces, !.ret = o.ret,
                                     !.out = <<RequestMessage(o.ret)>>]
                   ELSE done
                     : o \in schedule_piece(s.pieces, any, p)}
        ELSE IF ~ps[p].peer_choking
             THEN {[done EXCEPT !.out = <<Message("NotInterested", <<>>)>>]}
             ELSE {done}

\* the match on message_id
Arm(ps, pcs, any, p, m, num_pieces) ==
    CASE m.id = "Choke" -> ArmChoke(ps, pcs, p)
      [] m.id = "Unchoke" -> ArmUnchoke(ps, pcs, any, p)
      [] m.id = "Interested" -> ArmInterested(ps, pcs, p)
      [] m.id = "NotInterested" -> ArmNotInterested(ps, pcs, p)
      [] m.id = "Have" -> ArmHave(ps, pcs, p, m.payload, num_pieces)
      [] m.id = "Bitfield" -> ArmBitfield(ps, pcs, p, m.payload, num_pieces)
      [] m.id = "Piece" -> ArmPiece(ps, pcs, any, p, m.payload)
      [] OTHER -> {Outcome(ps, pcs)}      \* Request, Cancel, KeepAlive, Port

\* the messages `out` pushed on the back of queue q for peer p, numbered from n
RECURSIVE PushAll(_, _, _, _)
PushAll(q, p, out, n) ==
    IF out = <<>> THEN q
    ELSE PushAll(Append(q, Tagged(p, Head(out), n + 1)), p, Tail(out), n + 1)

ChokeHistory(h, p, id) ==
    IF id = "Choke" THEN [h EXCEPT ![p] = "choke"]
    ELSE IF id = "Unchoke" THEN [h EXCEPT ![p] = "unchoke"]
    ELSE h

Loop == [pc |-> "loop", peer |-> NoPeer]

-----------------------------------------------------------------------------
(* download(): connect_to_peers, then the four tasks *)

Init ==
    /\ SchedStart(PieceSchedulerNew(EngineTorrent.num_hashes, EngineTorrent.piece_length,
                                    EngineTorrent.total_size))
    /\ phase = "connect"
    /\ peers = <<>>
    /\ send_queue = <<>>
    /\ receive_queue = <<>>
    /\ stream = [p \in PeerIds |-> <<>>]
    /\ arrivals = 0
    /\ faults = 0
    /\ out_next = 0
    /\ disp_pc = Loop
    /\ reader_pc = [pc |-> "loop", peer |-> NoPeer]
    /\ peers_to_remove = {}
    /\ writer_pc = Loop
    /\ processed = [p \in PeerIds |-> <<>>]
    /\ choke_hist = [p \in PeerIds |-> "none"]
    /\ evicted = {}
    /\ evicted_known = {}
    /\ discarded = {}
    /\ torrent = EngineTorrent
    /\ wrong = {}
    /\ IoIdle

\* a connect task whose handshake succeeded: the BITFIELD is queued, the peer joins
Join(p) ==
    /\ phase = "connect"
    /\ p \notin DOMAIN peers
    /\ ~(Cardinality(DOMAIN peers) >= min_connections)
    /\ send_queue' = Append(send_queue,
                            Tagged(p, Message("Bitfield", to_bytes(to_bitfield(pieces))),
                                   out_next + 1))
    /\ out_next' = out_next + 1
    /\ peers' = Insert(peers, p, PeerStateNew)
    /\ UNCHANGED <<schedVars, phase, receive_queue, stream, arrivals, faults, disp_pc, reader_pc,
                   peers_to_remove, writer_pc, processed, choke_hist, evicted, evicted_known,
                   discarded>>
    /\ UNCHANGED <<torrent, wrong, ioVars>>

\* connect_to_peers returns once the peer map holds min_connections; the tasks start
StartTasks ==
    /\ phase = "connect"
    /\ ~(Cardinality(DOMAIN peers) < min_connections)
    /\ phase' = "run"
    /\ UNCHANGED <<schedVars, peers, send_queue, receive_queue, stream, arrivals, faults,
                   out_next, disp_pc, reader_pc, peers_to_remove, writer_pc, processed,
                   choke_hist, evicted, evicted_known, discarded>>
    /\ UNCHANGED <<torrent, wrong, ioVars>>

\* removing a peer from the map (peers.write().await.remove), with the history
RemoveFromMap(p) ==
    /\ peers' = Remove(peers, p)
    /\ evicted' = evicted \cup {p}
    /\ evicted_known' = IF KnownToScheduler(pieces, p) THEN evicted_known \cup {p}
                        ELSE evicted_known

-----------------------------------------------------------------------------
(* process_messages *)

\* `let Some(peer) = id_to_peer.get(&peer_id) else { continue }`
DispatcherLookup(ps, peer_id) == peer_id \in DOMAIN ps

\* one iteration of the loop, up to the end of the block that holds the map's read lock
Dispatch ==
    /\ phase = "run"
    /\ disp_pc.pc = "loop"
    /\ receive_queue # <<>>
    /\ LET item == Head(receive_queue)
           p == item.peer
       IN  /\ receive_queue' = Tail(receive_queue)
           /\ processed' = [processed EXCEPT ![p] = Append(@, item.seq)]
           /\ discarded' = IF DispatcherLookup(peers, p) THEN discarded
                            ELSE discarded \cup {"inbound"}
           /\ IF ~DispatcherLookup(peers, p)
              THEN UNCHANGED <<schedVars, peers, send_queue, out_next, disp_pc, choke_hist>>
              ELSE \E o \in Arm(peers, pieces, any_complete, p, item, NumPieces) :
                      /\ peers' = o.peers
                      /\ pieces' = o.pieces
                      /\ send_queue' = PushAll(send_queue, p, o.out, out_next)
                      /\ out_next' = out_next + Len(o.out)
                      /\ disp_pc' = IF o.panic THEN [pc |-> "dead", peer |-> NoPeer]
                                    ELSE IF o.should_remove THEN [pc |-> "remove", peer |-> p]
                                    ELSE Loop
                      /\ choke_hist' = ChokeHistory(choke_hist, p, item.id)
                      /\ last_ret' = IF item.id \in {"Unchoke", "Piece"} THEN o.ret ELSE last_ret
                      /\ LET rf == IF o.setblk = <<>> THEN req_from
                                   ELSE Satisfy(req_from, o.setblk[1], o.setblk[2])
                         IN  /\ req_from' = HandOut(rf, o.ret, p)
                             /\ dup_handout' = (dup_handout \/ IsDupHandout(rf, o.ret))
                      /\ set_done' = IF o.setblk = <<>> THEN set_done
                                     ELSE set_done \cup {o.setblk}
                      /\ UNCHANGED <<any_complete, sched_panic>>
    /\ UNCHANGED <<phase, stream, arrivals, faults, reader_pc, peers_to_remove, writer_pc,
                   evicted, evicted_known>>
    /\ UNCHANGED <<torrent, wrong, ioVars>>

\* `peers.write().await.remove(&peer_id)` after should_remove
DispatchEvictRemove ==
    /\ disp_pc.pc = "remove"
    /\ RemoveFromMap(disp_pc.peer)
    /\ disp_pc' = [pc |-> "count", peer |-> disp_pc.peer]
    /\ UNCHANGED <<schedVars, phase, send_queue, receive_queue, stream, arrivals, faults,
                   out_next, reader_pc, peers_to_remove, writer_pc, processed, choke_hist,
                   discarded>>
    /\ UNCHANGED <<torrent, wrong, ioVars>>

\* `piece_scheduler.write().await.remove_peer_count(&peer_id)` after should_remove
DispatchEvictCount ==
    /\ disp_pc.pc = "count"
    /\ pieces' = remove_peer_count(pieces, disp_pc.peer)
    /\ disp_pc' = Loop
    /\ UNCHANGED <<any_complete, sched_panic, last_ret, req_from, dup_handout, set_done,
                   phase, peers, send_queue, receive_queue, stream, arrivals, faults, out_next,
                   reader_pc, peers_to_remove, writer_pc, processed, choke_hist, evicted,
                   evicted_known, discarded>>
    /\ UNCHANGED <<torrent, wrong, ioVars>>

-----------------------------------------------------------------------------
(* retrieve_messages.  The for loop over the peer map visits the peers in   *)
(* the map's order, one receive_message each, and the loop over              *)
(* peers_to_remove follows it; the model lets the reader serve any peer of   *)
(* the map at any time and evict a marked peer at any time.                  *)

\* receive_message returned Ok(message) for peer p: the next frame of its stream,
\* pushed on the receive queue
\* a push_front in place of the push_back
ReceivePush_front(q, item) == <<item>> \o q

ReceivePush(q, item) == Append(q, item)

ReaderReceive(p, m) ==
    /\ phase = "run"
    /\ reader_pc.pc = "loop"
    /\ p \in DOMAIN peers
    /\ arrivals' = arrivals + 1
    /\ IF from_value_panics(m.id)       \* message.get_id() in the println!
       THEN /\ reader_pc' = [pc |-> "dead", peer |-> p]
            /\ UNCHANGED receive_queue
       ELSE /\ receive_queue' = ReceivePush(receive_queue, Tagged(p, m, arrivals + 1))
            /\ UNCHANGED reader_pc
    /\ UNCHANGED <<schedVars, phase, peers, send_queue, stream, faults, out_next, disp_pc,
                   peers_to_remove, writer_pc, processed, choke_hist, evicted,
                   evicted_known, discarded>>
    /\ UNCHANGED <<torrent, wrong, ioVars>>

\* receive_message returned a hard error for peer p (closed stream, socket error)
ReaderError(p) ==
    /\ phase = "run"
    /\ reader_pc.pc = "loop"
    /\ p \in DOMAIN peers
    /\ p \notin peers_to_remove
    /\ faults < MaxFaults
    /\ faults' = faults + 1
    /\ peers_to_remove' = peers_to_remove \cup {p}
    /\ UNCHANGED <<schedVars, phase, peers, send_queue, receive_queue, stream, arrivals,
                   out_next, disp_pc, reader_pc, writer_pc, processed, choke_hist, evicted,
                   evicted_known, discarded>>
    /\ UNCHANGED <<torrent, wrong, ioVars>>

\* `peers.write().await.remove(peer_id).is_some()` for a peer of peers_to_remove
ReaderEvictRemove(p) ==
    /\ reader_pc.pc = "loop"
    /\ p \in peers_to_remove
    /\ p \in DOMAIN peers
    /\ RemoveFromMap(p)
    /\ reader_pc' = [pc |-> "count", peer |-> p]
    /\ UNCHANGED <<schedVars, phase, send_queue, receive_queue, stream, arrivals, faults,
                   out_next, disp_pc, peers_to_remove, writer_pc, processed, choke_hist,
                   discarded>>
    /\ UNCHANGED <<torrent, wrong, ioVars>>

\* `piece_scheduler.write().await.remove_peer_count(&peer_id)`
ReaderEvictCount ==
    /\ reader_pc.pc = "count"
    /\ pieces' = remove_peer_count(pieces, reader_pc.peer)
    /\ reader_pc' = Loop
    /\ UNCHANGED <<any_complete, sched_panic, last_ret, req_from, dup_handout, set_done,
                   phase, peers, send_queue, receive_queue, stream, arrivals, faults,
                   out_next, disp_pc, peers_to_remove, writer_pc, processed, choke_hist,
                   evicted, evicted_known, discarded>>
    /\ UNCHANGED <<torrent, wrong, ioVars>>

-----------------------------------------------------------------------------
(* send_messages *)

\* a writer that never misses the peer
WriterLookup_any(ps, peer_id) == TRUE

\* `let Some(peer) = id_to_peer.get(&peer_id) else { continue }`
WriterLookup(ps, peer_id) == peer_id \in DOMAIN ps

\* Err(SendError::WouldBlock): the item goes back on the queue
Requeue(q, item) == Append(q, item)

\* the results of send_message: the whole frame written, WouldBlock, a hard error
SendResults == {"ok", "wouldblock", "err"}

\* one pop of the send queue and the send
WriterSend ==
    /\ phase = "run"
    /\ writer_pc.pc = "loop"
    /\ send_queue # <<>>
    /\ LET item == Head(send_queue)
           p == item.peer
       IN  IF ~WriterLookup(peers, p)
           THEN /\ send_queue' = Tail(send_queue)
                /\ discarded' = discarded \cup {"outbound"}
                /\ UNCHANGED <<stream, writer_pc, faults>>
           ELSE \E result \in SendResults :
                   /\ UNCHANGED discarded
                   /\ result # "ok" => faults < MaxFaults
                   /\ faults' = IF result = "ok" THEN faults ELSE faults + 1
                   /\ stream' = IF result = "ok" THEN [stream EXCEPT ![p] = Append(@, item)]
                                ELSE stream
                   /\ send_queue' = IF result = "wouldblock"
                                    THEN Requeue(Tail(send_queue), item)
                                    ELSE Tail(send_queue)
                   /\ writer_pc' = IF result = "wouldblock" THEN Loop
                                   ELSE [pc |-> result, peer |-> p]
    /\ UNCHANGED <<schedVars, phase, peers, receive_queue, arrivals, out_next, disp_pc,
                   reader_pc, peers_to_remove, processed, choke_hist, evicted, evicted_known>>
    /\ UNCHANGED <<torrent, wrong, ioVars>>

\* Ok(()): `id_to_peer.get(&peer_id).unwrap()` and the last_touch update
WriterTouch ==
    /\ writer_pc.pc = "ok"
    /\ writer_pc' = IF writer_pc.peer \in DOMAIN peers THEN Loop
                    ELSE [pc |-> "dead", peer |-> NoPeer]
    /\ UNCHANGED <<schedVars, phase, peers, send_queue, receive_queue, stream, arrivals, faults,
                   out_next, disp_pc, reader_pc, peers_to_remove, processed, choke_hist,
                   evicted, evicted_known, discarded>>
    /\ UNCHANGED <<torrent, wrong, ioVars>>

\* Err(_): `peers.write().await.remove(&peer_id).is_some()`
WriterEvictRemove ==
    /\ writer_pc.pc = "err"
    /\ IF writer_pc.peer \in DOMAIN peers
       THEN /\ RemoveFromMap(writer_pc.peer)
            /\ writer_pc' = [pc |-> "count", peer |-> writer_pc.peer]
       ELSE /\ writer_pc' = Loop
            /\ UNCHANGED <<peers, evicted, evicted_known>>
    /\ UNCHANGED <<schedVars, phase, send_queue, receive_queue, stream, arrivals, faults,
                   out_next, disp_pc, reader_pc, peers_to_remove, processed, choke_hist,
                   discarded>>
    /\ UNCHANGED <<torrent, wrong, ioVars>>

\* `piece_scheduler.write().await.remove_peer_count(&peer_id)`
WriterEvictCount ==
    /\ writer_pc.pc = "count"
    /\ pieces' = remove_peer_count(pieces, writer_pc.peer)
    /\ writer_pc' = Loop
    /\ UNCHANGED <<any_complete, sched_panic, last_ret, req_from, dup_handout, set_done,
                   phase, peers, send_queue, receive_queue, stream, arrivals, faults, out_next,
                   disp_pc, reader_pc, peers_to_remove, processed, choke_hist, evicted,
                   evicted_known, discarded>>
    /\ UNCHANGED <<torrent, wrong, ioVars>>

-----------------------------------------------------------------------------

Next ==
    \/ \E p \in PeerIds : Join(p)
    \/ StartTasks
    \/ Dispatch
    \/ DispatchEvictRemove
    \/ DispatchEvictCount
    \/ \E p \in PeerIds, m \in EngineFrames : arrivals < MaxFrames /\ ReaderReceive(p, m)
    \/ \E p \in PeerIds : ReaderError(p)
    \/ \E p \in PeerIds : ReaderEvictRemove(p)
    \/ ReaderEvictCount
    \/ WriterSend
    \/ WriterTouch
    \/ WriterEvictRemove
    \/ WriterEvictCount

Spec == Init /\ [][Next]_vars

-----------------------------------------------------------------------------
(* The dispatcher specification: the engine while no socket fails and the    *)
(* writer has not run: the peers connect, the reader receives any frames and *)
(* the dispatcher processes them.                                            *)

NextDispatch ==
    \/ \E p \in PeerIds : Join(p)
    \/ StartTasks
    \/ \E p \in PeerIds, m \in InboundFrames : arrivals < MaxDispatched /\ ReaderReceive(p, m)
    \/ Dispatch
    \/ DispatchEvictRemove
    \/ DispatchEvictCount

SpecDispatch == Init /\ [][NextDispatch]_vars

-----------------------------------------------------------------------------
(* The malformed-frame specification: the peers connect and send frames that *)
(* are malformed, or CHOKE; the reader receives them and the dispatcher      *)
(* processes them. No frame here sets should_remove.                         *)

\* a byte that is no message id; a HAVE payload of fewer than 4 bytes; a PIECE payload
\* of fewer than 8; a PIECE for a piece that does not exist; a PIECE for an offset
\* past the piece's last block; a PIECE for an offset inside a block
MalformedFrames ==
    {Message("Unknown", <<>>), Message("Have", <<>>), Message("Piece", <<0>>),
     Message("Piece", <<NumPieces, 0>>), Message("Piece", <<0, BLOCK_SIZE>>),
     Message("Piece", <<0, 1>>)}

NextMalformed ==
    \/ \E p \in PeerIds : Join(p)
    \/ StartTasks
    \/ \E p \in PeerIds, m \in MalformedFrames \cup {Message("Choke", <<>>)} :
          arrivals < MaxDispatched /\ ReaderReceive(p, m)
    \/ Dispatch

SpecMalformed == Init /\ [][NextMalformed]_vars

-----------------------------------------------------------------------------
(* connect_to_peers(min_connections): a round spawns one connect task per    *)
(* peer of the tracker's list; a task connects, exchanges handshakes, looks  *)
(* at the size of the peer map, queues the BITFIELD and inserts the peer.    *)
(* The tasks of a round run concurrently; every await is a step.  Join above *)
(* is a task's last three steps taken at once.                               *)

\* b"BitTorrent protocol"
PSTR == <<66, 105, 116, 84, 111, 114, 114, 101, 110, 116, 32,
          112, 114, 111, 116, 111, 99, 111, 108>>

HANDSHAKE_LEN == 49 + Len(PSTR)

\* the torrent's info hash and the peers' ids, 20 bytes each
InfoHash == [k \in 1..20 |-> 170]

PeerIdByte == [A |-> 65, B |-> 66]

PeerIdBytes(p) == [k \in 1..20 |-> PeerIdByte[p]]

\* the key of the peer map a peer id of 20 bytes is
PeerIdOf(bytes) == CHOOSE p \in PeerIds : PeerIdBytes(p) = bytes

\* the handshake a peer of this torrent answers with
GoodHandshake(p) == <<Len(PSTR)>> \o PSTR \o [k \in 1..8 |-> 0] \o InfoHash \o PeerIdBytes(p)

\* the 68 bytes a connect task may read: a good handshake, or one with another
\* protocol string length, another protocol string, another info hash
Handshakes ==
    UNION {{GoodHandshake(p),
            [GoodHandshake(p) EXCEPT ![1] = 18],
            [GoodHandshake(p) EXCEPT ![2] = 98],
            [GoodHandshake(p) EXCEPT ![29] = 171]} : p \in PeerIds}

\* what initiate_handshake gets: a write error, a read error, or 68 bytes
HandshakeResults ==
    {[err |-> e, bytes |-> <<>>] : e \in {"send", "short"}}
        \cup {[err |-> "-", bytes |-> h] : h \in Handshakes}

\* a validate_handshake that does not look at the info hash
validate_handshake_nohash(handshake, info_hash) ==
    IF Len(handshake) # HANDSHAKE_LEN THEN [ok |-> FALSE, peer_id |-> <<>>]
    ELSE IF handshake[1] # Len(PSTR) THEN [ok |-> FALSE, peer_id |-> <<>>]
    ELSE IF SubSeq(handshake, 2, 20) # PSTR THEN [ok |-> FALSE, peer_id |-> <<>>]
    ELSE [ok |-> TRUE, peer_id |-> SubSeq(handshake, 49, 68)]

\* Client::validate_handshake
validate_handshake(handshake, info_hash) ==
    IF Len(handshake) # HANDSHAKE_LEN THEN [ok |-> FALSE, peer_id |-> <<>>]
    ELSE IF handshake[1] # Len(PSTR) THEN [ok |-> FALSE, peer_id |-> <<>>]
    ELSE IF SubSeq(handshake, 2, 20) # PSTR THEN [ok |-> FALSE, peer_id |-> <<>>]
    ELSE IF SubSeq(handshake, 29, 48) # info_hash THEN [ok |-> FALSE, peer_id |-> <<>>]
    ELSE [ok |-> TRUE, peer_id |-> SubSeq(handshake, 49, 68)]

\* the peers of the tracker's list, by address, and the rounds of connect_to_peers
TrackerPeers == {"addr1", "addr2"}

MaxRounds == 2

NewTask == [pc |-> "connect", response |-> <<>>, peer_id |-> NoPeer, why |-> "-"]

Failed(task, why) == [task EXCEPT !.pc = "failed", !.why = why]

\* connect_to_peers(min) is called: the map is smaller than min, the first round spawns
ConnectToPeers(min) ==
    /\ phase = "connect"
    /\ conn = <<>>
    /\ Cardinality(DOMAIN peers) < min
    /\ conn' = [min |-> min, round |-> 1, task |-> [c \in TrackerPeers |-> NewTask],
                joined |-> [p \in PeerIds |-> <<>>]]
    /\ UNCHANGED <<schedVars, engineVars, torrent, wrong, tx, rx, fm, sock, bitf, benc, clock>>

\* timeout(5 s, TcpStream::connect(addr)): a stream, a connect error, the timeout
TcpConnect(c, result) ==
    /\ conn # <<>> /\ conn.task[c].pc = "connect"
    /\ conn' = [conn EXCEPT !.task[c] = IF result = "ok" THEN [@ EXCEPT !.pc = "handshake"]
                                        ELSE Failed(@, result)]
    /\ UNCHANGED <<schedVars, engineVars, torrent, wrong, tx, rx, fm, sock, bitf, benc, clock>>

\* initiate_handshake: write_all fails, or read_exact fails (fewer than 68 bytes came),
\* or 68 bytes are read and validated
InitiateHandshake(c, r) ==
    /\ conn # <<>> /\ conn.task[c].pc = "handshake"
    /\ conn' = [conn EXCEPT !.task[c] =
                  IF r.err # "-" THEN Failed(@, r.err)
                  ELSE LET v == validate_handshake(r.bytes, InfoHash)
                       IN  IF v.ok THEN [@ EXCEPT !.pc = "check", !.response = r.bytes,
                                                  !.peer_id = PeerIdOf(v.peer_id)]
                           ELSE Failed([@ EXCEPT !.response = r.bytes], "validate")]
    /\ UNCHANGED <<schedVars, engineVars, torrent, wrong, tx, rx, fm, sock, bitf, benc, clock>>

\* `if peers.read().await.len() >= min_connections { return Err(..) }`
CheckTarget(c) ==
    /\ conn # <<>> /\ conn.task[c].pc = "check"
    /\ conn' = [conn EXCEPT !.task[c] = IF Cardinality(DOMAIN peers) >= conn.min
                                        THEN Failed(@, "target")
                                        ELSE [@ EXCEPT !.pc = "push"]]
    /\ UNCHANGED <<schedVars, engineVars, torrent, wrong, tx, rx, fm, sock, bitf, benc, clock>>

\* `send_queue.lock().await.push_back((peer_id, Message::new(Bitfield, &bitfield)))`
PushBitfield(c) ==
    /\ conn # <<>> /\ conn.task[c].pc = "push"
    /\ send_queue' = Append(send_queue,
                            Tagged(conn.task[c].peer_id,
                                   Message("Bitfield", to_bytes(to_bitfield(pieces))),
                                   out_next + 1))
    /\ out_next' = out_next + 1
    /\ conn' = [conn EXCEPT !.task[c].pc = "insert"]
    /\ UNCHANGED <<schedVars, phase, peers, receive_queue, stream, arrivals, faults, disp_pc,
                   reader_pc, peers_to_remove, writer_pc, processed, choke_hist, evicted,
                   evicted_known, discarded>>
    /\ UNCHANGED <<torrent, wrong, tx, rx, fm, sock, bitf, benc, clock>>

\* `peers.write().await.insert(peer_id, PeerState::new(..))`, and Ok(peer_id)
InsertPeer(c) ==
    /\ conn # <<>> /\ conn.task[c].pc = "insert"
    /\ peers' = Insert(peers, conn.task[c].peer_id, PeerStateNew)
    /\ conn' = [conn EXCEPT !.task[c].pc = "done",
                            !.joined[conn.task[c].peer_id] = conn.task[c].response]
    /\ UNCHANGED <<schedVars, phase, send_queue, receive_queue, stream, arrivals, faults,
                   out_next, disp_pc, reader_pc, peers_to_remove, writer_pc, processed,
                   choke_hist, evicted, evicted_known, discarded>>
    /\ UNCHANGED <<torrent, wrong, tx, rx, fm, sock, bitf, benc, clock>>

\* every task of the round was joined (an Err is dropped); the while loop spawns the
\* next round if the map is still smaller than min
NextRound ==
    /\ conn # <<>> /\ phase = "connect"
    /\ \A c \in TrackerPeers : conn.task[c].pc \in {"done", "failed"}
    /\ Cardinality(DOMAIN peers) < conn.min
    /\ conn.round < MaxRounds
    /\ conn' = [conn EXCEPT !.round = @ + 1, !.task = [c \in TrackerPeers |-> NewTask]]
    /\ UNCHANGED <<schedVars, engineVars, torrent, wrong, tx, rx, fm, sock, bitf, benc, clock>>

\* ... and returns Ok(()) if it is not: download() starts the four tasks
ConnectReturn ==
    /\ conn # <<>> /\ phase = "connect"
    /\ \A c \in TrackerPeers : conn.task[c].pc \in {"done", "failed"}
    /\ ~(Cardinality(DOMAIN peers) < conn.min)
    /\ phase' = "run"
    /\ UNCHANGED <<schedVars, peers, send_queue, receive_queue, stream, arrivals, faults,
                   out_next, disp_pc, reader_pc, peers_to_remove, writer_pc, processed,
                   choke_hist, evicted, evicted_known, discarded>>
    /\ UNCHANGED <<torrent, wrong, ioVars>>

NextConnect ==
    \/ \E min \in 1..Cardinality(TrackerPeers) : ConnectToPeers(min)
    \/ \E c \in TrackerPeers, result \in {"ok", "error", "timeout"} : TcpConnect(c, result)
    \/ \E c \in TrackerPeers, r \in HandshakeResults : InitiateHandshake(c, r)
    \/ \E c \in TrackerPeers : CheckTarget(c)
    \/ \E c \in TrackerPeers : PushBitfield(c)
    \/ \E c \in TrackerPeers : InsertPeer(c)
    \/ NextRound
    \/ ConnectReturn

SpecConnect == Init /\ [][NextConnect]_vars

-----------------------------------------------------------------------------
(* The tasks at the grain of their awaits.  The reader walks the peer map,   *)
(* one receive_message(stream).await per peer, holding the map's read lock;  *)
(* receive_message awaits stream.readable() before it reads.  The writer     *)
(* pops one item and awaits stream.writable() inside send_message.  The      *)
(* peers send complete frames and may stop reading what is sent to them.     *)
(* sock = [inbox: the frames waiting on each peer's socket, unwritable: the  *)
(* peers whose socket will not take a byte, todo: the peers the reader's for *)
(* loop has still to visit, out: the item the writer holds, ticks: the       *)
(* KEEP_ALIVEs queued, greeted: the peers that have sent their BITFIELD].    *)

\* a torrent of one piece of one block, and the frames its peers send
LiveTorrent == [num_hashes |-> 1, piece_length |-> BLOCK_SIZE, total_size |-> BLOCK_SIZE]

LiveFrames == {Message("Bitfield", <<128>>), Message("Piece", <<0, 0>>)}

MaxLiveFrames == 2

\* the client of LiveTorrent after construction
LiveInit ==
    /\ SchedStart(PieceSchedulerNew(LiveTorrent.num_hashes, LiveTorrent.piece_length,
                                    LiveTorrent.total_size))
    /\ phase = "connect"
    /\ peers = <<>>
    /\ send_queue = <<>>
    /\ receive_queue = <<>>
    /\ stream = [p \in PeerIds |-> <<>>]
    /\ arrivals = 0
    /\ faults = 0
    /\ out_next = 0
    /\ disp_pc = Loop
    /\ reader_pc = Loop
    /\ peers_to_remove = {}
    /\ writer_pc = Loop
    /\ processed = [p \in PeerIds |-> <<>>]
    /\ choke_hist = [p \in PeerIds |-> "none"]
    /\ evicted = {}
    /\ evicted_known = {}
    /\ discarded = {}
    /\ torrent = LiveTorrent
    /\ wrong = {}
    /\ IoIdle

MaxTicks == 1

\* the orders in which a HashMap's iter() may yield the keys
MapOrders(ps) ==
    {o \in [1..Cardinality(DOMAIN ps) -> DOMAIN ps] :
        \A i, j \in DOMAIN o : o[i] = o[j] => i = j}

\* download(): connect_to_peers returned, tokio::join! spawns the four tasks
LiveStart ==
    /\ phase = "connect"
    /\ ~(Cardinality(DOMAIN peers) < min_connections)
    /\ phase' = "run"
    /\ sock' = [inbox |-> [p \in PeerIds |-> <<>>], unwritable |-> {}, todo |-> <<>>,
                out |-> <<>>, ticks |-> 0, greeted |-> {}]
    /\ UNCHANGED <<schedVars, peers, send_queue, receive_queue, stream, arrivals, faults,
                   out_next, disp_pc, reader_pc, peers_to_remove, writer_pc, processed,
                   choke_hist, evicted, evicted_known, discarded>>
    /\ UNCHANGED <<torrent, wrong, tx, rx, fm, conn, bitf, benc, clock>>

\* peer p sends a frame: it lies complete on the socket.  The peers keep to the
\* protocol: a peer's first frame is its BITFIELD, and it sends it once.
PeerSends(p, m) ==
    /\ phase = "run"
    /\ p \in DOMAIN peers
    /\ arrivals < MaxLiveFrames
    /\ m.id = "Bitfield" <=> p \notin sock.greeted
    /\ sock' = [sock EXCEPT !.inbox[p] = Append(@, Tagged(p, m, arrivals + 1)),
                            !.greeted = @ \cup {p}]
    /\ arrivals' = arrivals + 1
    /\ UNCHANGED <<schedVars, phase, peers, send_queue, receive_queue, stream, faults,
                   out_next, disp_pc, reader_pc, peers_to_remove, writer_pc, processed,
                   choke_hist, evicted, evicted_known, discarded>>
    /\ UNCHANGED <<torrent, wrong, tx, rx, fm, conn, bitf, benc, clock>>

\* peer p stops reading: its socket never becomes writable again
PeerStopsReading(p) ==
    /\ phase = "run"
    /\ p \in DOMAIN peers
    /\ p \notin sock.unwritable
    /\ sock' = [sock EXCEPT !.unwritable = @ \cup {p}]
    /\ UNCHANGED <<schedVars, engineVars, torrent, wrong, tx, rx, fm, conn, bitf, benc, clock>>

\* `for (peer_id, peer) in peers.read().await.iter()`: a pass over the map begins
ReaderPass ==
    /\ phase = "run"
    /\ reader_pc.pc = "loop"
    /\ \E o \in MapOrders(peers) : sock' = [sock EXCEPT !.todo = o]
    /\ reader_pc' = [pc |-> "for", peer |-> NoPeer]
    /\ UNCHANGED <<schedVars, phase, peers, send_queue, receive_queue, stream, arrivals,
                   faults, out_next, disp_pc, peers_to_remove, writer_pc, processed,
                   choke_hist, evicted, evicted_known, discarded>>
    /\ UNCHANGED <<torrent, wrong, tx, rx, fm, conn, bitf, benc, clock>>

\* receive_message(stream).await for the next peer of the pass: readable() returns
\* when bytes lie on the socket, the frame is read and pushed on the receive queue
ReaderReceiveFrame ==
    /\ reader_pc.pc = "for"
    /\ sock.todo # <<>>
    /\ LET p == Head(sock.todo)
       IN  /\ sock.inbox[p] # <<>>
           /\ IF from_value_panics(Head(sock.inbox[p]).id)
              THEN /\ reader_pc' = [pc |-> "dead", peer |-> p]
                   /\ UNCHANGED receive_queue
              ELSE /\ receive_queue' = ReceivePush(receive_queue, Head(sock.inbox[p]))
                   /\ UNCHANGED reader_pc
           /\ sock' = [sock EXCEPT !.inbox[p] = Tail(@), !.todo = Tail(@)]
    /\ UNCHANGED <<schedVars, phase, peers, send_queue, stream, arrivals, faults, out_next,
                   disp_pc, peers_to_remove, writer_pc, processed, choke_hist, evicted,
                   evicted_known, discarded>>
    /\ UNCHANGED <<torrent, wrong, tx, rx, fm, conn, bitf, benc, clock>>

\* readable() returned on a socket without bytes (readiness may be a false positive):
\* try_read is WouldBlock, `yield_now().await; continue`
ReaderWouldBlock ==
    /\ reader_pc.pc = "for"
    /\ sock.todo # <<>>
    /\ sock.inbox[Head(sock.todo)] = <<>>
    /\ faults < MaxFaults
    /\ faults' = faults + 1
    /\ sock' = [sock EXCEPT !.todo = Tail(@)]
    /\ UNCHANGED <<schedVars, phase, peers, send_queue, receive_queue, stream, arrivals,
                   out_next, disp_pc, reader_pc, peers_to_remove, writer_pc, processed,
                   choke_hist, evicted, evicted_known, discarded>>
    /\ UNCHANGED <<torrent, wrong, tx, rx, fm, conn, bitf, benc, clock>>

\* the pass is over: yield_now(), the loop over the (empty) peers_to_remove, `loop`
ReaderPassEnd ==
    /\ reader_pc.pc = "for"
    /\ sock.todo = <<>>
    /\ reader_pc' = Loop
    /\ UNCHANGED <<schedVars, phase, peers, send_queue, receive_queue, stream, arrivals,
                   faults, out_next, disp_pc, peers_to_remove, writer_pc, processed,
                   choke_hist, evicted, evicted_known, discarded>>
    /\ UNCHANGED <<torrent, wrong, ioVars>>

\* `send_queue.lock().await.pop_front()` and the lookup of the peer
WriterPop ==
    /\ phase = "run"
    /\ writer_pc.pc = "loop"
    /\ send_queue # <<>>
    /\ send_queue' = Tail(send_queue)
    /\ LET item == Head(send_queue)
       IN  IF ~WriterLookup(peers, item.peer)
           THEN /\ discarded' = discarded \cup {"outbound"}
                /\ UNCHANGED <<writer_pc, sock>>
           ELSE /\ writer_pc' = [pc |-> "send", peer |-> item.peer]
                /\ sock' = [sock EXCEPT !.out = <<item>>]
                /\ UNCHANGED discarded
    /\ UNCHANGED <<schedVars, phase, peers, receive_queue, stream, arrivals, faults, out_next,
                   disp_pc, reader_pc, peers_to_remove, processed, choke_hist, evicted,
                   evicted_known>>
    /\ UNCHANGED <<torrent, wrong, tx, rx, fm, conn, bitf, benc, clock>>

\* send_message: writable() returns on a socket that takes bytes, the frame is written
WriterWrite ==
    /\ writer_pc.pc = "send"
    /\ writer_pc.peer \notin sock.unwritable
    /\ stream' = [stream EXCEPT ![writer_pc.peer] = Append(@, sock.out[1])]
    /\ sock' = [sock EXCEPT !.out = <<>>]
    /\ writer_pc' = [pc |-> "ok", peer |-> writer_pc.peer]
    /\ UNCHANGED <<schedVars, phase, peers, send_queue, receive_queue, arrivals, faults,
                   out_next, disp_pc, reader_pc, peers_to_remove, processed, choke_hist,
                   evicted, evicted_known, discarded>>
    /\ UNCHANGED <<torrent, wrong, tx, rx, fm, conn, bitf, benc, clock>>

\* writable() returned on a socket that takes no byte (a false positive): try_write is
\* WouldBlock and the item goes back on the queue
WriterWouldBlock ==
    /\ writer_pc.pc = "send"
    /\ faults < MaxFaults
    /\ faults' = faults + 1
    /\ send_queue' = Requeue(send_queue, sock.out[1])
    /\ sock' = [sock EXCEPT !.out = <<>>]
    /\ writer_pc' = Loop
    /\ UNCHANGED <<schedVars, phase, peers, receive_queue, stream, arrivals, out_next,
                   disp_pc, reader_pc, peers_to_remove, processed, choke_hist, evicted,
                   evicted_known, discarded>>
    /\ UNCHANGED <<torrent, wrong, tx, rx, fm, conn, bitf, benc, clock>>

\* keep_alive: peer p has not been touched for more than 60 seconds (nothing of p's
\* lies on its socket or waits in a queue)
KeepAliveTick(p) ==
    /\ phase = "run"
    /\ p \in DOMAIN peers
    /\ sock.inbox[p] = <<>>
    /\ \A q \in {send_queue, receive_queue, sock.out} : \A k \in DOMAIN q : q[k].peer # p
    /\ sock.ticks < MaxTicks
    /\ send_queue' = Append(send_queue, Tagged(p, Message("KeepAlive", <<>>), out_next + 1))
    /\ out_next' = out_next + 1
    /\ sock' = [sock EXCEPT !.ticks = @ + 1]
    /\ UNCHANGED <<schedVars, phase, peers, receive_queue, stream, arrivals, faults, disp_pc,
                   reader_pc, peers_to_remove, writer_pc, processed, choke_hist, evicted,
                   evicted_known, discarded>>
    /\ UNCHANGED <<torrent, wrong, tx, rx, fm, conn, bitf, benc, clock>>

\* the per-peer read lock of p is held across an await on p's socket: the guard of
\* `&peer.read().await.stream` lives to the end of its block, so the reader holds it
\* while receive_message waits in readable() and the writer while send_message waits
\* in writable()
ReadLocked(p) ==
    \/ reader_pc.pc = "for" /\ sock.todo # <<>> /\ Head(sock.todo) = p
    \/ writer_pc.pc = "send" /\ writer_pc.peer = p

\* the arms that take `peer.write().await` (the Piece arm takes peer.read(), the
\* Bitfield arm of a payload that is too short takes no lock)
TakesWriteLock(m, num_pieces) ==
    \/ m.id \in {"Choke", "Unchoke", "Interested", "NotInterested", "Have"}
    \/ m.id = "Bitfield" /\ ~(Len(m.payload) * 8 < num_pieces)

\* one iteration of the dispatcher with the per-peer lock: the arm comes to its end
\* once the write lock it awaits is granted, which it is not while a read guard is held
DispatchLocked ==
    /\ receive_queue # <<>>
    /\ LET item == Head(receive_queue)
       IN  (DispatcherLookup(peers, item.peer) /\ TakesWriteLock(item, NumPieces))
              => ~ReadLocked(item.peer)
    /\ Dispatch

NextLive ==
    \/ \E p \in PeerIds : Join(p)
    \/ LiveStart
    \/ \E p \in PeerIds, m \in LiveFrames : PeerSends(p, m)
    \/ \E p \in PeerIds : PeerStopsReading(p)
    \/ ReaderPass
    \/ ReaderReceiveFrame
    \/ ReaderWouldBlock
    \/ ReaderPassEnd
    \/ DispatchLocked
    \/ WriterPop
    \/ WriterWrite
    \/ WriterWouldBlock
    \/ WriterTouch
    \/ \E p \in PeerIds : KeepAliveTick(p)

\* the runtime schedules every task that can run; what the peers do, the passing of
\* time and false readiness are not forced.  A socket that takes bytes whenever the
\* writer comes to it is written to.
LiveFairness ==
    /\ WF_vars(ReaderPass) /\ WF_vars(ReaderReceiveFrame) /\ WF_vars(ReaderPassEnd)
    /\ WF_vars(DispatchLocked)
    /\ WF_vars(WriterPop) /\ SF_vars(WriterWrite) /\ WF_vars(WriterTouch)

SpecLive == LiveInit /\ [][NextLive]_vars /\ LiveFairness

-----------------------------------------------------------------------------
(* The wire (src/client/message.rs): a message is a length, an id byte and a *)
(* payload; a frame is the four bytes of the length, big-endian, the id and  *)
(* the payload. Bytes are 0..255.                                            *)

\* the scheduler and the engine while a single call is followed on its own
Quiet ==
    /\ SchedStart(PieceSchedulerNew(EngineTorrent.num_hashes, EngineTorrent.piece_length,
                                    EngineTorrent.total_size))
    /\ EngineIdle
    /\ torrent = EngineTorrent
    /\ wrong = {}

\* u32::to_be_bytes
to_be_bytes(n) ==
    <<(n \div 16777216) % 256, (n \div 65536) % 256, (n \div 256) % 256, n % 256>>

\* u32::from_be_bytes
from_be_bytes(b) == b[1] * 16777216 + b[2] * 65536 + b[3] * 256 + b[4]

\* Message::new
MessageNew(id, payload) == [len |-> Len(payload) + 1, id |-> value(id), payload |-> payload]

\* Message::serialize
serialize(m) == to_be_bytes(m.len) \o <<m.id>> \o m.payload

\* keep_alive: the message the ticker queues for every peer
keep_alive_message == MessageNew("KeepAlive", <<>>)

\* The payloads of the messages followed on the wire: up to MaxPayload bytes of
\* PayloadBytes
MaxPayload == 2

PayloadBytes == {0, 1}

Payloads == UNION {[1..n -> PayloadBytes] : n \in 0..MaxPayload}

WireMessages == {MessageNew(id, payload) : id \in DOMAIN MessageIdValue, payload \in Payloads}

\* the calls of send_message or receive_message on one message after WouldBlock
MaxRetries == 1

Drop(s, n) == SubSeq(s, n + 1, Len(s))

-----------------------------------------------------------------------------
(* send_message, and the writer's retry after WouldBlock. tx.wire is what the *)
(* socket has taken, in order.                                               *)

\* the writer dequeues a message and calls send_message
SendMessage(m) ==
    /\ tx = <<>>
    /\ tx' = [message |-> m, bytes_written |-> 0, pc |-> "loop", wire |-> <<>>, retries |-> 0]
    /\ UNCHANGED <<schedVars, engineVars, torrent, wrong, rx, fm, conn, sock, bitf, benc, clock>>

\* try_write(&message.serialize()) returns Ok(n), n > 0: the socket took the first n
\* bytes of the buffer it was given
TryWrite(n) ==
    /\ tx # <<>> /\ tx.pc = "loop"
    /\ LET frame == serialize(tx.message)
           bw    == tx.bytes_written + n
       IN  /\ n \in 1..Len(frame)
           /\ tx' = [tx EXCEPT !.wire = @ \o SubSeq(frame, 1, n),
                               !.bytes_written = bw,
                               !.pc = IF bw < Len(frame) THEN "loop" ELSE "ok"]
    /\ UNCHANGED <<schedVars, engineVars, torrent, wrong, rx, fm, conn, sock, bitf, benc, clock>>

\* try_write returns Ok(0)
TryWriteZero ==
    /\ tx # <<>> /\ tx.pc = "loop"
    /\ tx' = [tx EXCEPT !.pc = "err"]
    /\ UNCHANGED <<schedVars, engineVars, torrent, wrong, rx, fm, conn, sock, bitf, benc, clock>>

\* try_write returns WouldBlock: send_message returns SendError::WouldBlock
TryWriteWouldBlock ==
    /\ tx # <<>> /\ tx.pc = "loop"
    /\ tx' = [tx EXCEPT !.pc = "wouldblock"]
    /\ UNCHANGED <<schedVars, engineVars, torrent, wrong, rx, fm, conn, sock, bitf, benc, clock>>

\* the writer requeued the message; it dequeues it and calls send_message again
WriterRetry ==
    /\ tx # <<>> /\ tx.pc = "wouldblock"
    /\ tx.retries < MaxRetries
    /\ tx' = [tx EXCEPT !.pc = "loop", !.bytes_written = 0, !.retries = @ + 1]
    /\ UNCHANGED <<schedVars, engineVars, torrent, wrong, rx, fm, conn, sock, bitf, benc, clock>>

SendInit == Quiet /\ IoIdle

SendNext ==
    \/ \E m \in WireMessages : SendMessage(m)
    \/ \E n \in 1..(MaxPayload + 5) : TryWrite(n)
    \/ TryWriteZero
    \/ TryWriteWouldBlock
    \/ WriterRetry

SpecSend == SendInit /\ [][SendNext]_vars

-----------------------------------------------------------------------------
(* receive_message, and the reader's next call after WouldBlock. rx.wire is  *)
(* what the peer wrote and the socket has not yet handed out; a try_read     *)
(* returns any number of its leading bytes that fit the buffer it was given. *)

\* what a peer writes: the frame of a message, or the four zero bytes of its keep-alive
PeerKeepAlive == [len |-> 0, id |-> value("KeepAlive"), payload |-> <<>>]

PeerFrame(m) == IF m = PeerKeepAlive THEN to_be_bytes(0) ELSE serialize(m)

\* the reader calls receive_message on a socket the peer wrote the frame of first to,
\* and then the bytes rest
ReceiveMessage(first, rest) ==
    /\ rx = <<>>
    /\ rx' = [first |-> first, sent |-> PeerFrame(first) \o rest,
              wire |-> PeerFrame(first) \o rest,
              pc |-> "prefix", len_buf |-> <<0, 0, 0, 0>>, bytes_read |-> 0,
              len |-> 0, message |-> <<>>, ret |-> <<>>, retries |-> 0]
    /\ UNCHANGED <<schedVars, engineVars, torrent, wrong, tx, fm, conn, sock, bitf, benc, clock>>

\* try_read(&mut len) returns Ok(n), n > 0: the bytes go to the start of len
ReadPrefix(n) ==
    /\ rx # <<>> /\ rx.pc = "prefix"
    /\ n \in 1..Min(4, Len(rx.wire))
    /\ LET buf == SubSeq(rx.wire, 1, n) \o SubSeq(rx.len_buf, n + 1, 4)
           br  == rx.bytes_read + n
           l   == from_be_bytes(buf)
       IN  rx' = IF br < 4
                 THEN [rx EXCEPT !.wire = Drop(@, n), !.len_buf = buf, !.bytes_read = br]
                 ELSE IF l = 0
                 THEN [rx EXCEPT !.wire = Drop(@, n), !.len_buf = buf, !.bytes_read = br,
                                 !.pc = "ok", !.ret = PeerKeepAlive]
                 ELSE [rx EXCEPT !.wire = Drop(@, n), !.len_buf = buf, !.bytes_read = 0,
                                 !.pc = "body", !.len = l]
    /\ UNCHANGED <<schedVars, engineVars, torrent, wrong, tx, fm, conn, sock, bitf, benc, clock>>

\* try_read returns WouldBlock in the prefix loop: receive_message returns
\* ReceiveError::WouldBlock
PrefixWouldBlock ==
    /\ rx # <<>> /\ rx.pc = "prefix"
    /\ rx' = [rx EXCEPT !.pc = "wouldblock"]
    /\ UNCHANGED <<schedVars, engineVars, torrent, wrong, tx, fm, conn, sock, bitf, benc, clock>>

\* try_read returns Ok(0), the stream was closed, in either loop
ReadZero ==
    /\ rx # <<>> /\ rx.pc \in {"prefix", "body"}
    /\ rx.wire = <<>>
    /\ rx' = [rx EXCEPT !.pc = "err"]
    /\ UNCHANGED <<schedVars, engineVars, torrent, wrong, tx, fm, conn, sock, bitf, benc, clock>>

\* try_read(&mut buffer) returns Ok(n), n > 0, buffer of len bytes; a WouldBlock in
\* this loop yields and tries again, which changes nothing
ReadBody(n) ==
    /\ rx # <<>> /\ rx.pc = "body"
    /\ n \in 1..Min(rx.len, Len(rx.wire))
    /\ LET msg == rx.message \o SubSeq(rx.wire, 1, n)
           br  == rx.bytes_read + n
       IN  rx' = IF br < rx.len
                 THEN [rx EXCEPT !.wire = Drop(@, n), !.message = msg, !.bytes_read = br]
                 ELSE [rx EXCEPT !.wire = Drop(@, n), !.message = msg, !.bytes_read = br,
                                 !.pc = "ok",
                                 !.ret = [len |-> rx.len, id |-> msg[1], payload |-> Tail(msg)]]
    /\ UNCHANGED <<schedVars, engineVars, torrent, wrong, tx, fm, conn, sock, bitf, benc, clock>>

\* the reader comes round to the peer again and calls receive_message
ReaderRetry ==
    /\ rx # <<>> /\ rx.pc = "wouldblock"
    /\ rx.retries < MaxRetries
    /\ rx' = [rx EXCEPT !.pc = "prefix", !.len_buf = <<0, 0, 0, 0>>, !.bytes_read = 0,
                        !.retries = @ + 1]
    /\ UNCHANGED <<schedVars, engineVars, torrent, wrong, tx, fm, conn, sock, bitf, benc, clock>>

\* what may follow the first frame: nothing yet, or the peer's next frame
FollowingBytes == {<<>>, serialize(MessageNew("Unchoke", <<>>))}

ReceiveInit == Quiet /\ IoIdle

ReceiveNext ==
    \/ \E first \in WireMessages \cup {PeerKeepAlive}, rest \in FollowingBytes :
          ReceiveMessage(first, rest)
    \/ \E n \in 1..4 : ReadPrefix(n)
    \/ PrefixWouldBlock
    \/ ReadZero
    \/ \E n \in 1..(2 * MaxPayload + 7) : ReadBody(n)
    \/ ReaderRetry

SpecReceive == ReceiveInit /\ [][ReceiveNext]_vars

-----------------------------------------------------------------------------
(* Bitfield followed on its own: new, any sets, to_bytes *)

\* the lengths of the bitfields followed
MaxBits == 10

\* Bitfield::new
BitfieldNewCall(size) ==
    /\ bitf = <<>>
    /\ bitf' = [bitfield |-> BitfieldNew(size), set_err |-> FALSE, ret |-> <<>>,
                last |-> <<"new", size>>, changed |-> {},
                written |-> [i \in 0..(size - 1) |-> FALSE]]
    /\ UNCHANGED <<schedVars, engineVars, torrent, wrong, tx, rx, fm, conn, sock, benc, clock>>

\* OutOfBoundsError { index, len }
OutOfBoundsError(index, len) == <<"Err", index, len>>

\* the bits that differ between two bitfields of one length
Changed(old, new) == {i \in DOMAIN old : old[i] # new[i]}

\* a set whose test is `index > len`
BitfieldSet_gt(index, v) ==
    /\ bitf # <<>>
    /\ LET len == VecLen(bitf.bitfield)
           new == [i \in DOMAIN bitf.bitfield |-> IF i = index THEN v ELSE bitf.bitfield[i]]
       IN  bitf' = IF index > len
                   THEN [bitf EXCEPT !.set_err = TRUE,
                                     !.last = <<"set", index, v, OutOfBoundsError(index, len)>>,
                                     !.changed = {}]
                   ELSE [bitf EXCEPT !.bitfield = new, !.set_err = FALSE, !.ret = <<>>,
                                     !.last = <<"set", index, v, <<"Ok">>>>,
                                     !.changed = Changed(bitf.bitfield, new),
                                     !.written = [i \in DOMAIN @ |-> IF i = index THEN v ELSE @[i]]]
    /\ UNCHANGED <<schedVars, engineVars, torrent, wrong, tx, rx, fm, conn, sock, benc, clock>>

\* Bitfield::set: Err(OutOfBoundsError) for an index that is not below the length.
\* last is the call and what it returned, changed the bits it changed, written the
\* value the last successful set gave each bit.
BitfieldSet(index, v) ==
    /\ bitf # <<>>
    /\ LET len == VecLen(bitf.bitfield)
           new == [i \in DOMAIN bitf.bitfield |-> IF i = index THEN v ELSE bitf.bitfield[i]]
       IN  bitf' = IF index >= len
                   THEN [bitf EXCEPT !.set_err = TRUE,
                                     !.last = <<"set", index, v, OutOfBoundsError(index, len)>>,
                                     !.changed = {}]
                   ELSE [bitf EXCEPT !.bitfield = new, !.set_err = FALSE, !.ret = <<>>,
                                     !.last = <<"set", index, v, <<"Ok">>>>,
                                     !.changed = Changed(bitf.bitfield, new),
                                     !.written = [i \in DOMAIN @ |-> IF i = index THEN v ELSE @[i]]]
    /\ UNCHANGED <<schedVars, engineVars, torrent, wrong, tx, rx, fm, conn, sock, benc, clock>>

\* Bitfield::is_set: Err(OutOfBoundsError) or Ok(bit)
BitfieldIsSet(index) ==
    /\ bitf # <<>>
    /\ LET len == VecLen(bitf.bitfield)
       IN  bitf' = [bitf EXCEPT !.last = <<"is_set", index, FALSE,
                                           IF index >= len THEN OutOfBoundsError(index, len)
                                           ELSE <<"Ok", bitf.bitfield[index]>>>>,
                                !.changed = {}]
    /\ UNCHANGED <<schedVars, engineVars, torrent, wrong, tx, rx, fm, conn, sock, benc, clock>>

\* Bitfield::to_bytes; ret holds the bytes returned
BitfieldToBytes ==
    /\ bitf # <<>>
    /\ bitf' = [bitf EXCEPT !.ret = <<to_bytes(bitf.bitfield)>>]
    /\ UNCHANGED <<schedVars, engineVars, torrent, wrong, tx, rx, fm, conn, sock, benc, clock>>

BitfieldInit == Quiet /\ IoIdle

BitfieldNext ==
    \/ \E size \in 0..MaxBits : BitfieldNewCall(size)
    \/ \E index \in 0..MaxBits, v \in BOOLEAN : BitfieldSet(index, v)
    \/ \E index \in 0..MaxBits : BitfieldIsSet(index)
    \/ BitfieldToBytes

SpecBitfield == BitfieldInit /\ [][BitfieldNext]_vars

-----------------------------------------------------------------------------
(* Bencode (src/bencode): parse_bencode and encode_bencode.  Bytes are the   *)
(* numbers 0..255.  A BencodeValue is [t |-> "Int", int], [t |-> "String",   *)
(* kind, bytes] (kind "String" for text that is UTF-8, "Bytes" otherwise),   *)
(* [t |-> "List", list] or [t |-> "Dict", dict], the BTreeMap<String, _> a   *)
(* function from the keys' bytes.  The inputs followed hold ASCII bytes and  *)
(* the byte 0xFF, which no UTF-8 text holds.                                 *)

IsDigit(c) == c \in 48..57

\* std::str::from_utf8(..).is_ok(), for ASCII and 0xFF
Utf8Valid(bytes) == \A k \in DOMAIN bytes : bytes[k] < 128

\* String::from_utf8_lossy: U+FFFD (EF BF BD) in place of every invalid byte
RECURSIVE from_utf8_lossy(_)
from_utf8_lossy(bytes) ==
    IF bytes = <<>> THEN <<>>
    ELSE (IF Head(bytes) < 128 THEN <<Head(bytes)>> ELSE <<239, 191, 189>>)
             \o from_utf8_lossy(Tail(bytes))

ParseErr == [ok |-> FALSE, panic |-> FALSE, value |-> <<>>, rest |-> <<>>]

ParsePanic == [ok |-> FALSE, panic |-> TRUE, value |-> <<>>, rest |-> <<>>]

ParseOk(v, rest) == [ok |-> TRUE, panic |-> FALSE, value |-> v, rest |-> rest]

\* the `while let Some(char) = input.get(i)` of parse_string; i counts from 0
RECURSIVE ScanLength(_, _, _)
ScanLength(input, i, length) ==
    IF i >= Len(input) \/ input[i + 1] = 58 THEN [ok |-> TRUE, i |-> i, length |-> length]
    ELSE IF IsDigit(input[i + 1]) THEN ScanLength(input, i + 1, length * 10 + (input[i + 1] - 48))
    ELSE [ok |-> FALSE, i |-> i, length |-> length]

parse_string(input) ==
    LET s == ScanLength(input, 0, 0)
    IN  IF ~s.ok THEN ParseErr
        ELSE IF s.i + 1 + s.length > Len(input) THEN ParseErr
        ELSE LET str_segment == SubSeq(input, s.i + 2, s.i + 1 + s.length)
             IN  ParseOk([t |-> "String",
                          kind |-> IF Utf8Valid(str_segment) THEN "String" ELSE "Bytes",
                          bytes |-> str_segment],
                         SubSeq(input, s.i + 2 + s.length, Len(input)))

\* the `while let Some(char) = input.get(i)` of parse_int
RECURSIVE ScanInt(_, _, _, _, _, _)
ScanInt(input, i, int, starting_index, starts_with_zero, is_negative) ==
    IF i >= Len(input) \/ input[i + 1] = 101 THEN [ok |-> TRUE, i |-> i, int |-> int]
    ELSE IF starts_with_zero /\ i # starting_index THEN [ok |-> FALSE, i |-> i, int |-> int]
    ELSE IF input[i + 1] = 48 /\ i = starting_index /\ is_negative
         THEN [ok |-> FALSE, i |-> i, int |-> int]
    ELSE IF IsDigit(input[i + 1])
         THEN ScanInt(input, i + 1, int * 10 + (input[i + 1] - 48), starting_index,
                      starts_with_zero \/ (input[i + 1] = 48 /\ i = starting_index), is_negative)
    ELSE [ok |-> FALSE, i |-> i, int |-> int]

parse_int(input) ==
    IF input = <<>> \/ input[1] # 105 THEN ParseErr
    ELSE LET is_negative == Len(input) >= 2 /\ input[2] = 45
             start == IF is_negative THEN 2 ELSE 1
             s == ScanInt(input, start, 0, start, FALSE, is_negative)
         IN  IF ~s.ok THEN ParseErr
             ELSE IF s.i + 1 > Len(input) THEN ParsePanic         \* input[i + 1..]
             ELSE ParseOk([t |-> "Int", int |-> IF is_negative THEN -s.int ELSE s.int],
                          SubSeq(input, s.i + 2, Len(input)))

\* dict.insert(key, value) on the BTreeMap
DictInsert(dict, key, v) ==
    [k \in (DOMAIN dict) \cup {key} |-> IF k = key THEN v ELSE dict[k]]

RECURSIVE parse_bencode(_), ParseListLoop(_, _), ParseDictLoop(_, _)

\* the `while let Some(char) = rest.get(0)` of parse_list
ParseListLoop(rest, list) ==
    IF rest = <<>> THEN ParseErr
    ELSE IF rest[1] = 101 THEN ParseOk([t |-> "List", list |-> list], Tail(rest))
    ELSE LET r == parse_bencode(rest)
         IN  IF ~r.ok THEN r ELSE ParseListLoop(r.rest, Append(list, r.value))

\* the `while let Some(char) = rest.get(0)` of parse_dict: a key that is not UTF-8 is
\* inserted as String::from_utf8_lossy of its bytes
ParseDictLoop(rest, dict) ==
    IF rest = <<>> THEN ParseErr
    ELSE IF rest[1] = 101 THEN ParseOk([t |-> "Dict", dict |-> dict], Tail(rest))
    ELSE LET key == parse_string(rest)
         IN  IF ~key.ok THEN key
             ELSE LET r == parse_bencode(key.rest)
                      s == IF key.value.kind = "String" THEN key.value.bytes
                           ELSE from_utf8_lossy(key.value.bytes)
                  IN  IF ~r.ok THEN r ELSE ParseDictLoop(r.rest, DictInsert(dict, s, r.value))

parse_bencode(input) ==
    IF input = <<>> THEN ParseErr
    ELSE CASE input[1] = 105 -> parse_int(input)
           [] input[1] = 108 -> ParseListLoop(Tail(input), <<>>)
           [] input[1] = 100 -> ParseDictLoop(Tail(input), <<>>)
           [] OTHER -> parse_string(input)

\* format!("{}", n) for n >= 0
RECURSIVE Decimal(_)
Decimal(n) == IF n < 10 THEN <<48 + n>> ELSE Decimal(n \div 10) \o <<48 + (n % 10)>>

\* encode_string and encode_bytes: the length in bytes, ':', the bytes
encode_string(text) == Decimal(Len(text)) \o <<58>> \o text

encode_int(int) == <<105>> \o (IF int < 0 THEN <<45>> \o Decimal(-int) ELSE Decimal(int)) \o <<101>>

\* the order of the BTreeMap's keys: Ord for str, byte by byte
RECURSIVE LexLess(_, _)
LexLess(a, b) ==
    IF b = <<>> THEN FALSE
    ELSE IF a = <<>> THEN TRUE
    ELSE IF Head(a) # Head(b) THEN Head(a) < Head(b)
    ELSE LexLess(Tail(a), Tail(b))

FirstKey(keys) == CHOOSE k \in keys : \A j \in keys : j = k \/ LexLess(k, j)

RECURSIVE encode_bencode(_), EncodeListLoop(_), EncodeDictLoop(_, _)

EncodeListLoop(list) ==
    IF list = <<>> THEN <<>> ELSE encode_bencode(Head(list)) \o EncodeListLoop(Tail(list))

EncodeDictLoop(dict, keys) ==
    IF keys = {} THEN <<>>
    ELSE LET k == FirstKey(keys)
         IN  encode_string(k) \o encode_bencode(dict[k]) \o EncodeDictLoop(dict, keys \ {k})

encode_bencode(v) ==
    CASE v.t = "String" -> encode_string(v.bytes)
      [] v.t = "Int" -> encode_int(v.int)
      [] v.t = "List" -> <<108>> \o EncodeListLoop(v.list) \o <<101>>
      [] v.t = "Dict" -> <<100>> \o EncodeDictLoop(v.dict, DOMAIN v.dict) \o <<101>>

\* Well-formed bencode, by its grammar.  The integers i0e, i7e, i-3e, i12e and the
\* strings "", "a", "ab" and the one byte 0xFF:
WfInts == {<<105, 48, 101>>, <<105, 55, 101>>, <<105, 45, 51, 101>>, <<105, 49, 50, 101>>}

WfKeys == {<<>>, <<97>>, <<97, 98>>, <<255>>}

\* <length>:<bytes>
WfString(bytes) == (IF Len(bytes) = 0 THEN <<48>> ELSE IF Len(bytes) = 1 THEN <<49>> ELSE <<50>>)
                       \o <<58>> \o bytes

WfAtoms == WfInts \cup {WfString(k) : k \in WfKeys}

\* the items of a list or dictionary at the outer level, at most
MaxItems == 2

\* at most k well-formed items in a row
RECURSIVE WfItems(_, _)
WfItems(S, k) ==
    IF k = 0 THEN {<<>>}
    ELSE {<<>>} \cup {a \o b : a \in S, b \in WfItems(S, k - 1)}

\* at most k key-value pairs, the keys in sorted order, each once
RECURSIVE WfPairs(_, _, _)
WfPairs(S, k, keys) ==
    IF k = 0 THEN {<<>>}
    ELSE {<<>>} \cup UNION {{WfString(key) \o v \o b :
                                v \in S, b \in WfPairs(S, k - 1, {j \in keys : LexLess(key, j)})}
                            : key \in keys}

WfContainers(S, k) ==
    {<<108>> \o b \o <<101>> : b \in WfItems(S, k)}
        \cup {<<100>> \o b \o <<101>> : b \in WfPairs(S, k, WfKeys)}

\* atoms, lists and dictionaries of atoms, and lists and dictionaries of one of those
WfInputs == LET inner == WfAtoms \cup WfContainers(WfAtoms, MaxItems)
            IN  inner \cup WfContainers(inner, 1)

\* parse_bencode(&input)
ParseBencode(input) ==
    /\ benc = <<>>
    /\ benc' = [input |-> input, parsed |-> parse_bencode(input), encoded |-> <<>>]
    /\ UNCHANGED <<schedVars, engineVars, torrent, wrong, tx, rx, fm, conn, sock, bitf, clock>>

\* encode_bencode(&parsed), as in tests::test_encode_bencode
EncodeBencode ==
    /\ benc # <<>>
    /\ benc.parsed.ok
    /\ benc.encoded = <<>>
    /\ benc' = [benc EXCEPT !.encoded = <<encode_bencode(benc.parsed.value)>>]
    /\ UNCHANGED <<schedVars, engineVars, torrent, wrong, tx, rx, fm, conn, sock, bitf, clock>>

BencodeInit == Quiet /\ IoIdle

BencodeNext ==
    \/ \E input \in WfInputs : ParseBencode(input)
    \/ EncodeBencode

SpecBencode == BencodeInit /\ [][BencodeNext]_vars

-----------------------------------------------------------------------------
(* keep_alive (src/client/mod.rs): the task is a `loop` around a pass over    *)
(* the peer map, without a sleep.  clock holds the time in seconds, each      *)
(* peer's last_touch and what is left of the ticker's pass; the peers are     *)
(* connected and silent, the sockets take every frame.                        *)

\* `(Utc::now() - last_touch).num_seconds() > 60`
KEEP_ALIVE_SECS == 60

MaxSeconds == 120

MaxPending == 3

\* the seconds that pass between two steps of the tasks
ElapseSteps == {30, 60}

KeepAliveInit ==
    /\ Quiet
    /\ tx = <<>> /\ rx = <<>> /\ fm = <<>> /\ conn = <<>> /\ sock = <<>> /\ bitf = <<>>
    /\ benc = <<>>
    /\ \E o \in MapOrders([p \in PeerIds |-> 0]) :
          clock = [now |-> 0, last_touch |-> [p \in PeerIds |-> 0], order |-> o, todo |-> o]

\* time passes
Elapse(d) ==
    /\ clock.now + d <= MaxSeconds
    /\ clock' = [clock EXCEPT !.now = @ + d]
    /\ UNCHANGED <<schedVars, engineVars, torrent, wrong, tx, rx, fm, conn, sock, bitf, benc>>

\* the seconds since the peer was last touched
Idle(c, p) == c.now - c.last_touch[p]

\* one iteration of `for (peer_id, peer) in peers.read().await.iter()`; after the last
\* peer of the map the `loop` starts the next pass at once
KeepAliveVisit ==
    /\ Len(send_queue) < MaxPending
    /\ LET p == Head(clock.todo)
       IN  /\ IF Idle(clock, p) > KEEP_ALIVE_SECS
              THEN /\ send_queue' = Append(send_queue,
                                           Tagged(p, Message("KeepAlive", <<>>), out_next + 1))
                   /\ out_next' = out_next + 1
              ELSE UNCHANGED <<send_queue, out_next>>
           /\ clock' = [clock EXCEPT !.todo = IF Tail(@) = <<>> THEN clock.order ELSE Tail(@)]
    /\ UNCHANGED <<schedVars, phase, peers, receive_queue, stream, arrivals, faults, disp_pc,
                   reader_pc, peers_to_remove, writer_pc, processed, choke_hist, evicted,
                   evicted_known, discarded>>
    /\ UNCHANGED <<torrent, wrong, tx, rx, fm, conn, sock, bitf, benc>>

\* one iteration of send_messages for the head of the outbound queue: pop_front,
\* send_message returns Ok(()), `peer.last_touch = Utc::now()`
WriterIteration ==
    /\ send_queue # <<>>
    /\ LET item == Head(send_queue)
       IN  /\ send_queue' = Tail(send_queue)
           /\ stream' = [stream EXCEPT ![item.peer] = Append(@, item)]
           /\ clock' = [clock EXCEPT !.last_touch[item.peer] = clock.now]
    /\ UNCHANGED <<schedVars, phase, peers, receive_queue, arrivals, faults, out_next, disp_pc,
                   reader_pc, peers_to_remove, writer_pc, processed, choke_hist, evicted,
                   evicted_known, discarded>>
    /\ UNCHANGED <<torrent, wrong, tx, rx, fm, conn, sock, bitf, benc>>

KeepAliveNext ==
    \/ \E d \in ElapseSteps : Elapse(d)
    \/ KeepAliveVisit
    \/ WriterIteration

SpecKeepAlive == KeepAliveInit /\ [][KeepAliveNext]_vars

-----------------------------------------------------------------------------
(* FileManager (src/client/file_manager.rs): the files of the torrent in     *)
(* order, each with the length the metainfo gives it, created empty. Lengths *)
(* are in bytes; the torrents followed here are a few bytes long.            *)

\* the torrents' bytes in all, at most, and their files, at most
MaxTorrentBytes == 4

MaxFiles == 2

\* the piece lengths of the metainfo
FilePieceLengths == {2}

RECURSIVE SumTo(_, _)
\* the accumulated_size in front of file f (files are numbered from 1)
SumTo(sizes, f) == IF f <= 1 THEN 0 ELSE SumTo(sizes, f - 1) + sizes[f - 1]

TotalSize(sizes) == SumTo(sizes, Len(sizes) + 1)

\* the first file with byte_offset < accumulated_size + file_size, 0 if there is none
FileAt(sizes, byte_offset) ==
    IF \E f \in 1..Len(sizes) : byte_offset < SumTo(sizes, f) + sizes[f]
    THEN CHOOSE f \in 1..Len(sizes) :
            /\ byte_offset < SumTo(sizes, f) + sizes[f]
            /\ \A g \in 1..(f - 1) : ~(byte_offset < SumTo(sizes, g) + sizes[g])
    ELSE 0

\* FileExt::write_at on a regular file: data at offset, a gap past the end reads as zeros
write_at(content, data, offset) ==
    LET n == IF Len(content) > offset + Len(data) THEN Len(content) ELSE offset + Len(data)
    IN  [k \in 1..n |-> IF k > offset /\ k <= offset + Len(data) THEN data[k - offset]
                        ELSE IF k <= Len(content) THEN content[k]
                        ELSE 0]

\* FileExt::read_at into a zeroed buffer of n bytes: the bytes of the file from offset,
\* as many as there are
read_at(content, n, offset) ==
    [k \in 1..n |-> IF offset + k <= Len(content) THEN content[offset + k] ELSE 0]

\* SHA-1, taken to be free of collisions
Sha1(bytes) == <<"sha1", bytes>>

\* FileManager::save_block
save_block(m, piece_index, begin, data) ==
    LET byte_offset == m.piece_length * piece_index + begin
        f           == FileAt(m.sizes, byte_offset)
    IN  IF f = 0 THEN m
        ELSE [m EXCEPT !.content[f] = write_at(@, data, byte_offset - SumTo(m.sizes, f))]

\* FileManager::verify_piece, for a piece of the torrent
verify_piece(m, piece_index, hash) ==
    LET offset == m.piece_length * piece_index
        f      == FileAt(m.sizes, offset)
        buf    == read_at(m.content[f], m.piece_length, offset)
    IN  hash = Sha1(buf)

\* the torrent's byte at global offset g, and a byte that is not the torrent's
TrueByte(g) == g + 1

TrueBytes(offset, n) == [k \in 1..n |-> TrueByte(offset + k - 1)]

\* the file lists of the metainfo
FileLists ==
    {s \in UNION {[1..n -> 1..MaxTorrentBytes] : n \in 1..MaxFiles} :
        TotalSize(s) \in (MaxTorrentBytes - 1)..MaxTorrentBytes}

FileNumPieces(m) == div_ceil(TotalSize(m.sizes), m.piece_length)

\* FileManager::new
FileManagerNew(sizes, piece_length) ==
    /\ fm = <<>>
    /\ fm' = [piece_length |-> piece_length, sizes |-> sizes,
              content |-> [f \in 1..Len(sizes) |-> <<>>], last |-> <<>>]
    /\ UNCHANGED <<schedVars, engineVars, torrent, wrong, tx, rx, conn, sock, bitf, benc, clock>>

\* save_block(piece_index, begin, data), the bytes inside the torrent; good: they are
\* the torrent's
CallSaveBlock(piece_index, begin, n, good) ==
    /\ fm # <<>>
    /\ LET offset == fm.piece_length * piece_index + begin
           data   == IF good THEN TrueBytes(offset, n) ELSE [k \in 1..n |-> 255]
       IN  /\ begin + n <= fm.piece_length
           /\ offset + n <= TotalSize(fm.sizes)
           /\ fm' = [save_block(fm, piece_index, begin, data) EXCEPT
                        !.last = [op |-> "save_block", offset |-> offset, data |-> data]]
    /\ UNCHANGED <<schedVars, engineVars, torrent, wrong, tx, rx, conn, sock, bitf, benc, clock>>

\* verify_piece(piece_index, hash), the hash that of a piece of the torrent
CallVerifyPiece(piece_index, hash_of) ==
    /\ fm # <<>>
    /\ piece_index < FileNumPieces(fm) /\ hash_of < FileNumPieces(fm)
    /\ LET total == TotalSize(fm.sizes)
           hash  == Sha1(TrueBytes(fm.piece_length * hash_of,
                                   Min(fm.piece_length, total - fm.piece_length * hash_of)))
       IN  fm' = [fm EXCEPT !.last = [op |-> "verify_piece", piece_index |-> piece_index,
                                      hash |-> hash,
                                      ret |-> verify_piece(fm, piece_index, hash)]]
    /\ UNCHANGED <<schedVars, engineVars, torrent, wrong, tx, rx, conn, sock, bitf, benc, clock>>

FilesInit == Quiet /\ IoIdle

FilesNext ==
    \/ \E sizes \in FileLists, pl \in FilePieceLengths : FileManagerNew(sizes, pl)
    \/ \E i \in 0..(MaxTorrentBytes - 1), begin \in 0..(MaxTorrentBytes - 1),
          n \in 1..MaxTorrentBytes, good \in BOOLEAN :
          CallSaveBlock(i, begin, n, good)
    \/ \E i, j \in 0..(MaxTorrentBytes - 1) : CallVerifyPiece(i, j)

SpecFiles == FilesInit /\ [][FilesNext]_vars

-----------------------------------------------------------------------------
(* Claims about the scheduler *)

AllPiecesCompleted == \A i \in DOMAIN pieces : pieces[i].completed

BitfieldAllOnes == \A i \in DOMAIN pieces : to_bitfield(pieces)[i]

\* C1 (scheduler completeness): once set_block has been called for every block of
\* every piece, every piece is completed and to_bitfield() has every bit set.
C1_SchedulerCompleteness ==
    (~sched_panic /\ set_done = BlockKeys(pieces) /\ wrong = {})
        => (AllPiecesCompleted /\ BitfieldAllOnes)

BlockAt(k) == pieces[k[1]].blocks[k[2] \div BLOCK_SIZE]

\* C2 (scheduler exclusivity): schedule_piece never returns a block that it handed out
\* before and that no set_block has satisfied since; a block handed out and not yet
\* satisfied keeps its requested flag.
C2_SchedulerExclusivity ==
    /\ ~dup_handout
    /\ \A k \in DOMAIN req_from : req_from[k] # NoPeer => BlockAt(k).requested

\* two blocks are handed out and outstanding at once: the second call had to pass
\* over the first block
C2_Witness ==
    /\ last_ret # <<>>
    /\ \E k \in DOMAIN req_from : req_from[k] # NoPeer /\ k # <<last_ret[1], last_ret[2]>>
    /\ req_from[<<last_ret[1], last_ret[2]>>] # NoPeer

\* a piece all of whose blocks have been set_block-ed
SomePieceDone ==
    \E i \in DOMAIN pieces :
        /\ DOMAIN pieces[i].blocks # {}
        /\ \A j \in DOMAIN pieces[i].blocks : <<i, pieces[i].blocks[j].begin>> \in set_done

\* the candidates as the claim words them
C3_Candidates(peer_id) ==
    {i \in DOMAIN pieces : /\ ~pieces[i].completed
                           /\ \E j \in DOMAIN pieces[i].blocks : IdleBlock(pieces[i].blocks[j])
                           /\ peer_id \in pieces[i].peers}

C3_Rarest(peer_id, i) ==
    /\ i \in C3_Candidates(peer_id)
    /\ \A k \in C3_Candidates(peer_id) :
          \/ Cardinality(pieces[i].peers) < Cardinality(pieces[k].peers)
          \/ Cardinality(pieces[i].peers) = Cardinality(pieces[k].peers) /\ i <= k

\* C3 (rarest-first after warm-up): once a piece has been completed, the block
\* schedule_piece(peer) returns is of the candidate piece with the fewest peers, the
\* smallest index among ties.
C3_RarestFirst ==
    [][\A p \in PeerIds :
          (CallSchedulePiece(p) /\ SomePieceDone /\ last_ret' # <<>>)
              => C3_Rarest(p, last_ret'[1])]_vars

-----------------------------------------------------------------------------
(* Claims about the connection set and its tasks *)

\* the task that removed peer p from the map has not yet called remove_peer_count(p)
EvictionPending(p) ==
    \/ disp_pc = [pc |-> "count", peer |-> p]
    \/ reader_pc = [pc |-> "count", peer |-> p]
    \/ writer_pc = [pc |-> "count", peer |-> p]

EvictionFinished(p) == p \in evicted /\ ~EvictionPending(p)

\* C4 (eviction clears availability): once a peer has been evicted by the dispatcher,
\* the reader or the writer and the eviction has finished, the peer is out of the peer
\* map and of every piece's peer set, and stays out.
C4_EvictionClearsAvailability ==
    \A p \in PeerIds :
        EvictionFinished(p) => (p \notin DOMAIN peers /\ ~KnownToScheduler(pieces, p))

\* a peer that was in a piece's peer set when it left the map, its eviction finished
C4_Witness ==
    \E p \in evicted_known : EvictionFinished(p)

\* the blocks handed to peer p by schedule_piece and not received since
Outstanding(p) == {k \in DOMAIN req_from : req_from[k] = p}

\* C5 (eviction abandons in-flight requests): once a peer's eviction has finished,
\* no block that was requested from it and not received has its requested flag set.
C5_EvictionResetsRequests ==
    \A p \in PeerIds :
        EvictionFinished(p) => \A k \in Outstanding(p) : ~BlockAt(k).requested

StaleInbound ==
    receive_queue # <<>> /\ Head(receive_queue).peer \notin DOMAIN peers

StaleOutbound ==
    send_queue # <<>> /\ Head(send_queue).peer \notin DOMAIN peers

\* C6 (stale messages are discarded): dequeuing an inbound message of a peer that has
\* left the map changes no peer state, nothing of the scheduler and not the send
\* queue; dequeuing an outbound message of such a peer writes to no stream.
C6_StaleDiscarded ==
    [][/\ (Dispatch /\ StaleInbound) =>
              UNCHANGED <<peers, pieces, any_complete, send_queue, out_next>>
       /\ (WriterSend /\ StaleOutbound) =>
              (UNCHANGED <<stream, peers, pieces>> /\ send_queue' = Tail(send_queue))]_vars

\* both queues have had a message of a departed peer dequeued
C6_Witness ==
    discarded = {"inbound", "outbound"}

\* C7 (CHOKE voids outstanding requests): while the last choke-state message processed
\* from a connected peer P is a CHOKE, peer_choking of P is true and no block
\* requested from P and not received has its requested flag set.
C7_ChokeVoidsRequests ==
    \A p \in DOMAIN peers :
        choke_hist[p] = "choke" =>
            (peers[p].peer_choking /\ \A k \in Outstanding(p) : ~BlockAt(k).requested)

\* the messages the step has pushed on the send queue
Enqueued ==
    {send_queue'[i] : i \in {j \in 1..Len(send_queue') : send_queue'[j].seq > out_next}}

\* C8 (no REQUEST while choked): a REQUEST is pushed on the send queue for peer P only
\* when peer_choking of P is false and the last choke-state message processed from P
\* is an UNCHOKE.
C8_NoRequestWhileChoked ==
    [][\A m \in Enqueued :
          m.id = "Request" =>
              /\ m.peer \in DOMAIN peers'
              /\ ~peers'[m.peer].peer_choking
              /\ choke_hist'[m.peer] = "unchoke"]_vars

\* the REQUESTs for peer p on the send queue or written to its stream
RequestsFor(p) ==
    {send_queue[i].seq : i \in {j \in 1..Len(send_queue) :
                                   send_queue[j].peer = p /\ send_queue[j].id = "Request"}}
    \cup {stream[p][i].seq : i \in {j \in 1..Len(stream[p]) : stream[p][j].id = "Request"}}

\* two REQUESTs for one peer are queued or written and a PIECE has been processed: the
\* Unchoke arm and the Piece arm have each pushed one
C8_Witness ==
    \E p \in PeerIds : Cardinality(RequestsFor(p)) >= 2 /\ set_done # {}

Increasing(s) == \A i, j \in 1..Len(s) : i < j => s[i] < s[j]

\* C9 (per-peer outbound order): the messages written to a peer's stream are in the
\* order they were pushed on the send queue.
C9_OutboundOrder ==
    \A p \in PeerIds : Increasing([i \in 1..Len(stream[p]) |-> stream[p][i].seq])

\* C10 (per-peer inbound order): the dispatcher dequeues the frames of a peer in the
\* order they arrived.
C10_InboundOrder ==
    \A p \in PeerIds : Increasing(processed[p])

\* the dispatcher has dequeued two frames of one peer
C10_Witness ==
    \E p \in PeerIds : Len(processed[p]) >= 2

-----------------------------------------------------------------------------
(* The wire *)

IsPrefix(s, t) == Len(s) <= Len(t) /\ SubSeq(t, 1, Len(s)) = s

\* C11: whatever the socket does (partial writes, WouldBlock and the writer's retries),
\* the bytes it has taken for a message are a prefix of the message's frame, no byte
\* twice and none missing, and send_message returns Ok only when they are the whole
\* frame, once.
C11_SendExactlyOnce ==
    tx # <<>> =>
        /\ IsPrefix(tx.wire, serialize(tx.message))
        /\ tx.pc = "ok" => tx.wire = serialize(tx.message)

\* C12: whatever the split of the stream into reads, a receive_message that returns a
\* message returns the next frame of the wire (its length, id and payload) and has
\* taken exactly the 4+L bytes of that frame off the socket; one that returns
\* WouldBlock has taken no byte off the socket.
C12_ReceiveOneFrame ==
    rx # <<>> =>
        /\ rx.pc = "ok" =>
              /\ rx.ret = rx.first
              /\ Len(rx.sent) - Len(rx.wire) = 4 + rx.first.len
        /\ rx.pc = "wouldblock" => rx.wire = rx.sent

\* C13: the bytes the socket has taken when send_message returns Ok for the
\* keep-alive ticker's message are 00 00 00 00.
C13_KeepAliveEncoding ==
    (tx # <<>> /\ tx.message = keep_alive_message /\ tx.pc = "ok") => tx.wire = <<0, 0, 0, 0>>

\* C14: when the socket holds serialize(M) and receive_message returns a message, the
\* message has the id and the payload of M.
C14_FrameRoundtrip ==
    (rx # <<>> /\ rx.sent = serialize(rx.first) /\ rx.pc = "ok") =>
        (rx.ret.id = rx.first.id /\ rx.ret.payload = rx.first.payload)

-----------------------------------------------------------------------------
(* The files *)

\* the byte at global offset g through the file mapping: the files in order, each as
\* long as the metainfo says; a byte not written yet reads as zero
GlobalByte(m, g) ==
    LET f == FileAt(m.sizes, g)
        k == g - SumTo(m.sizes, f) + 1
    IN  IF k <= Len(m.content[f]) THEN m.content[f][k] ELSE 0

GlobalRead(m, offset, n) == [k \in 1..n |-> GlobalByte(m, offset + k - 1)]

\* C15: after save_block(piece_index, begin, b), b inside the torrent's byte space,
\* the global range [piece_index*L + begin, +len(b)) read through the file mapping is
\* b, also when the range crosses from one file into the next.
C15_FileOffsetLaw ==
    (fm # <<>> /\ fm.last # <<>> /\ fm.last.op = "save_block") =>
        GlobalRead(fm, fm.last.offset, Len(fm.last.data)) = fm.last.data

\* the bytes of piece i: the global range [i*L, min((i+1)*L, total_size))
PieceRange(m, i) ==
    GlobalRead(m, m.piece_length * i,
               Min(m.piece_length, TotalSize(m.sizes) - m.piece_length * i))

\* C16: verify_piece(i, h) returns true exactly when the hash of the bytes of piece i,
\* read through the file mapping, is h.
C16_VerifyReadsOwnRange ==
    (fm # <<>> /\ fm.last # <<>> /\ fm.last.op = "verify_piece") =>
        (fm.last.ret <=> Sha1(PieceRange(fm, fm.last.piece_index)) = fm.last.hash)

-----------------------------------------------------------------------------
(* The scheduler's blocks and completion *)

\* the byte length of piece i of torrent t
PieceByteLength(t, i) ==
    IF i < t.num_hashes - 1 THEN t.piece_length
    ELSE t.total_size - (t.num_hashes - 1) * t.piece_length

RECURSIVE BlockLengthSum(_, _)
\* the lengths of the first n blocks of a block list, summed
BlockLengthSum(blocks, n) ==
    IF n = 0 THEN 0 ELSE BlockLengthSum(blocks, n - 1) + blocks[n - 1].length

\* C17: the scheduler PieceScheduler::new built for the torrent gives every piece
\* blocks at the offsets 0, B, 2B, ... whose lengths sum to the piece's byte length.
C17_BlockPartition ==
    \A i \in DOMAIN pieces :
        /\ \A j \in DOMAIN pieces[i].blocks : pieces[i].blocks[j].begin = j * BLOCK_SIZE
        /\ BlockLengthSum(pieces[i].blocks, VecLen(pieces[i].blocks))
              = PieceByteLength(torrent, i)

\* every block of piece i but the one at begin is completed, and that one is not
LastOutstanding(i, begin) ==
    \A j \in DOMAIN pieces[i].blocks :
        pieces[i].blocks[j].completed <=> pieces[i].blocks[j].begin # begin

\* C19: when set_block commits the last outstanding block of a piece and some block of
\* the piece holds bytes that are not the torrent's (the piece does not hash to the
\* expected value), the piece is not completed afterwards and every block of it has
\* completed and requested cleared.
C19_MismatchReschedules ==
    [][\A k \in BlockKeys(pieces), good \in BOOLEAN :
          (/\ CallSetBlock(k[1], k[2], good)
           /\ ~sched_panic'
           /\ LastOutstanding(k[1], k[2])
           /\ \E w \in wrong' : w[1] = k[1])
          => /\ ~pieces'[k[1]].completed
             /\ \A j \in DOMAIN pieces'[k[1]].blocks :
                   /\ ~pieces'[k[1]].blocks[j].completed
                   /\ ~pieces'[k[1]].blocks[j].requested]_vars

-----------------------------------------------------------------------------
(* The dispatcher's BITFIELD arm *)

\* C20: when the dispatcher processes a BITFIELD of a connected peer whose payload is
\* not ceil(N/8) bytes long, shorter or longer, it evicts the peer, does not store a
\* bitfield for it and puts it in no piece's peer set.
C20_BitfieldLengthCheck ==
    [][(/\ phase = "run" /\ disp_pc.pc = "loop" /\ receive_queue # <<>>
        /\ receive_queue' = Tail(receive_queue)
        /\ Head(receive_queue).id = "Bitfield"
        /\ DispatcherLookup(peers, Head(receive_queue).peer)
        /\ Len(Head(receive_queue).payload) # div_ceil(NumPieces, 8))
       => LET p == Head(receive_queue).peer
          IN  /\ disp_pc' = [pc |-> "remove", peer |-> p]
              /\ peers'[p].bitfield = peers[p].bitfield
              /\ \A i \in DOMAIN pieces : p \in pieces'[i].peers => p \in pieces[i].peers]_vars

-----------------------------------------------------------------------------
(* The dispatcher's HAVE and PIECE arms *)

\* this step is the dispatcher taking the head of the receive queue, a message with
\* this id from a peer of the map
Dispatching(id) ==
    /\ phase = "run" /\ disp_pc.pc = "loop" /\ receive_queue # <<>>
    /\ receive_queue' = Tail(receive_queue)
    /\ Head(receive_queue).id = id
    /\ DispatcherLookup(peers, Head(receive_queue).peer)

\* C21: when the dispatcher processes a HAVE whose piece index is N or more, it goes
\* on to evict the peer (it neither panics nor carries on with the peer in the map)
\* and no piece's peer set gains the peer's id.
C21_HaveOutOfRangeEvicts ==
    [][(/\ Dispatching("Have")
        /\ Len(Head(receive_queue).payload) >= 1
        /\ Head(receive_queue).payload[1] >= NumPieces)
       => LET p == Head(receive_queue).peer
          IN  /\ disp_pc' = [pc |-> "remove", peer |-> p]
              /\ \A i \in DOMAIN pieces : p \in pieces'[i].peers => p \in pieces[i].peers]_vars

\* C23: when the dispatcher processes a PIECE for a block of the torrent whose
\* requested flag is not set, the blocks of the piece keep their flags and nothing is
\* written to the files (set_block is not called).
C23_UnsolicitedPieceDropped ==
    [][(/\ Dispatching("Piece")
        /\ Len(Head(receive_queue).payload) >= 2
        /\ <<Head(receive_queue).payload[1], Head(receive_queue).payload[2]>>
              \in BlockKeys(pieces)
        /\ ~BlockAt(<<Head(receive_queue).payload[1],
                      Head(receive_queue).payload[2]>>).requested)
       => /\ pieces'[Head(receive_queue).payload[1]].blocks
                = pieces[Head(receive_queue).payload[1]].blocks
          /\ set_done' = set_done]_vars

\* C26: the first frame written to a peer's stream is the BITFIELD of the local
\* completion bitfield.
C26_BitfieldFirst ==
    \A p \in PeerIds :
        stream[p] # <<>> =>
            /\ stream[p][1].id = "Bitfield"
            /\ stream[p][1].payload = to_bytes(to_bitfield(pieces))

\* a HAVE or PIECE whose payload is too short, or a PIECE that addresses no block
Malformed(m) ==
    \/ m.id = "Have" /\ Len(m.payload) < 1
    \/ m.id = "Piece" /\ Len(m.payload) < 2
    \/ m.id = "Piece" /\ Len(m.payload) >= 2 /\ <<m.payload[1], m.payload[2]>> \notin BlockKeys(pieces)

\* C22: a frame the reader takes off a socket leaves the reader running, whatever its
\* id byte; when the dispatcher processes a malformed HAVE or PIECE it goes on to evict
\* the sender, and every other peer of the map keeps its state.
C22_MalformedEvictsSender ==
    [][/\ arrivals' # arrivals => reader_pc'.pc # "dead"
       /\ \A id \in {"Have", "Piece"} :
             (Dispatching(id) /\ Malformed(Head(receive_queue)))
             => LET p == Head(receive_queue).peer
                IN  /\ disp_pc' = [pc |-> "remove", peer |-> p]
                    /\ \A q \in (DOMAIN peers) \ {p} :
                          q \in DOMAIN peers' /\ peers'[q] = peers[q]]_vars

-----------------------------------------------------------------------------
(* Bitfield *)

\* bit k of a byte, bit 0 the lowest
BitOf(byte, k) == (byte \div Pow2(k)) % 2 = 1

\* C30: the bytes to_bytes returns for a bitfield of n bits are ceil(n/8) bytes;
\* bit (7 - i mod 8) of byte floor(i/8) is bit i of the bitfield for every i < n
\* and is zero for every i from n on.
C30_BitfieldSerialization ==
    (bitf # <<>> /\ bitf.ret # <<>>) =>
        LET bytes == bitf.ret[1]
            n     == VecLen(bitf.bitfield)
        IN  /\ Len(bytes) * 8 >= n /\ (Len(bytes) - 1) * 8 < n
            /\ \A c \in 1..Len(bytes) :
                  /\ bytes[c] \in 0..255
                  /\ \A k \in 0..7 :
                        LET i == 8 * (c - 1) + k
                        IN  BitOf(bytes[c], 7 - k) <=> (i < n /\ bitf.bitfield[i])

\* ten set bits have been serialized, to 0xFF 0xC0
C30_Witness ==
    /\ bitf # <<>>
    /\ VecLen(bitf.bitfield) = 10
    /\ \A i \in 0..9 : bitf.bitfield[i]
    /\ bitf.ret = <<<<255, 192>>>>

-----------------------------------------------------------------------------
(* Connecting *)

\* 68 bytes that start with 19 and "BitTorrent protocol" and carry the torrent's info
\* hash at 28..47 and the id of peer p at 48..67
ValidHandshakeOf(h, p) ==
    /\ Len(h) = 68
    /\ h[1] = 19
    /\ \A k \in 1..19 : h[1 + k] = PSTR[k]
    /\ \A k \in 1..20 : h[28 + k] = InfoHash[k]
    /\ \A k \in 1..20 : h[48 + k] = PeerIdBytes(p)[k]

\* C24: every peer of the map was inserted by a connect task that had read a valid
\* handshake carrying that peer's id; a task that got past the handshake has read one;
\* a task that failed to connect, timed out, read a short handshake or one that does
\* not validate never comes to insert a peer.
C24_MembershipNeedsHandshake ==
    conn # <<>> =>
        /\ \A p \in DOMAIN peers : ValidHandshakeOf(conn.joined[p], p)
        /\ \A c \in TrackerPeers :
              conn.task[c].pc \in {"check", "push", "insert", "done"}
                  => ValidHandshakeOf(conn.task[c].response, conn.task[c].peer_id)

\* one task of the round failed on a handshake with another info hash and another
\* one inserted its peer
C24_Witness ==
    /\ conn # <<>>
    /\ \E c, d \in TrackerPeers :
          /\ conn.task[c].pc = "failed" /\ conn.task[c].why = "validate"
          /\ conn.task[c].response # <<>> /\ conn.task[c].response[29] # InfoHash[1]
          /\ conn.task[d].pc = "done" /\ conn.task[d].peer_id \in DOMAIN peers

\* the item this step pushed on the back of a queue, if it pushed one
Pushed(q, qn) == IF qn # q /\ Len(qn) >= Len(q) THEN {qn[Len(qn)]} ELSE {}

\* C25: whenever a step pushes a message on the inbound or the outbound queue, the
\* peer it is tagged with is in the peer map at that moment.
C25_TagsNameLivePeers ==
    [][\A item \in Pushed(send_queue, send_queue') \cup Pushed(receive_queue, receive_queue') :
          item.peer \in DOMAIN peers]_vars

\* C27: the connect tasks never grow the peer map beyond min_connections.
C27_TargetIsCap ==
    conn # <<>> => Cardinality(DOMAIN peers) <= conn.min

-----------------------------------------------------------------------------
(* Progress *)

\* the frame numbered n lies on a peer's socket, not yet read
OnSocket(n) == sock # <<>> /\ \E p \in PeerIds : \E k \in DOMAIN sock.inbox[p] : sock.inbox[p][k].seq = n

\* the outbound message numbered n waits for a peer of the map whose socket takes bytes
Outbound(n) ==
    /\ sock # <<>>
    /\ \E q \in {send_queue, sock.out} : \E k \in DOMAIN q :
          /\ q[k].seq = n
          /\ q[k].peer \in DOMAIN peers
          /\ q[k].peer \notin sock.unwritable

\* the outbound message numbered n has been written to its peer's stream
Written(n) == \E p \in PeerIds : \E k \in DOMAIN stream[p] : stream[p][k].seq = n

\* C28: a complete frame lying on a peer's socket is eventually read by the reader (and
\* pushed on the inbound queue), and an outbound message for a peer whose socket takes
\* bytes is eventually written, whatever the other peers do.
C28_PeersDoNotBlock ==
    /\ \A n \in 1..MaxLiveFrames : OnSocket(n) ~> ~OnSocket(n)
    /\ \A n \in 1..(Cardinality(PeerIds) + MaxLiveFrames + MaxTicks) : Outbound(n) ~> Written(n)

\* every block of every piece has been received
AllBlocksCompleted ==
    \A i \in DOMAIN pieces : \A j \in DOMAIN pieces[i].blocks : pieces[i].blocks[j].completed

\* the JoinHandles of the reader, the writer and the dispatcher are complete: a task
\* ends only by a panic (the keep-alive task, the fourth of tokio::join!, is a loop
\* that neither breaks nor panics)
TasksStopped == reader_pc.pc = "dead" /\ writer_pc.pc = "dead" /\ disp_pc.pc = "dead"

\* C29: once every piece has been received, the reader, the writer and the dispatcher
\* stop, as they must for download() to return Ok.
C29_DownloadTerminates == (phase = "run" /\ AllBlocksCompleted) ~> TasksStopped

-----------------------------------------------------------------------------
(* Bitfield bounds *)

\* C31: a set or an is_set with an index that is not below the length returns the
\* out-of-bounds error with that index and the length and changes no bit; a set below
\* the length changes at most the bit of its index, which then has the value given;
\* an is_set below the length returns the value last set for the bit, FALSE if none.
C31_BitfieldBounds ==
    (bitf # <<>> /\ bitf.last[1] \in {"set", "is_set"}) =>
        LET n == Cardinality(DOMAIN bitf.bitfield)
            op == bitf.last[1]
            i == bitf.last[2]
            v == bitf.last[3]
            res == bitf.last[4]
        IN  /\ i >= n => (res = <<"Err", i, n>> /\ bitf.changed = {})
            /\ (i < n /\ op = "set") =>
                  (res = <<"Ok">> /\ bitf.changed \subseteq {i} /\ bitf.bitfield[i] = v)
            /\ (i < n /\ op = "is_set") =>
                  (res = <<"Ok", bitf.written[i]>> /\ bitf.changed = {})

\* is_set(n) on a bitfield of n > 0 bits, some of them set, returned the error
C31_Witness ==
    /\ bitf # <<>>
    /\ bitf.last[1] = "is_set"
    /\ bitf.last[2] = Cardinality(DOMAIN bitf.bitfield)
    /\ bitf.last[4][1] = "Err"
    /\ \E k \in DOMAIN bitf.bitfield : bitf.bitfield[k]

-----------------------------------------------------------------------------
(* Bencode *)

\* C32: every well-formed bencoded input is parsed, with an empty remainder, and the
\* encoding of what was parsed is the input, byte for byte.
C32_BencodeRoundtrip ==
    benc # <<>> =>
        /\ benc.parsed.ok
        /\ benc.parsed.rest = <<>>
        /\ benc.encoded # <<>> => benc.encoded[1] = benc.input

-----------------------------------------------------------------------------
(* UNCHOKE *)

\* C33: when the dispatcher processes UNCHOKE from peer P, P's peer_choking is false
\* afterwards and exactly one message for P is pushed on the send queue: a REQUEST
\* with what schedule_piece(P) returned, or NOT_INTERESTED if it returned nothing.
C33_UnchokeHandling ==
    [][Dispatching("Unchoke")
       => LET p == Head(receive_queue).peer
          IN  /\ disp_pc'.pc # "dead"
              /\ ~peers'[p].peer_choking
              /\ Len(send_queue') = Len(send_queue) + 1
              /\ SubSeq(send_queue', 1, Len(send_queue)) = send_queue
              /\ LET sent == send_queue'[Len(send_queue')]
                 IN  /\ sent.peer = p
                     /\ IF last_ret' # <<>>
                        THEN sent.id = "Request" /\ sent.payload = last_ret'
                        ELSE sent.id = "NotInterested"]_vars

-----------------------------------------------------------------------------
(* Candidate selection *)

\* the blocks of piece i that are neither completed nor requested
OpenBlocks(i) ==
    {j \in DOMAIN pieces[i].blocks :
        ~pieces[i].blocks[j].completed /\ ~pieces[i].blocks[j].requested}

\* the pieces schedule_piece(p) may serve: not completed, p in the peer set, a block open
Servable(p) ==
    {i \in DOMAIN pieces : ~pieces[i].completed /\ p \in pieces[i].peers /\ OpenBlocks(i) # {}}

\* the first open block of piece i, in offset order
FirstOpen(i) ==
    CHOOSE j \in OpenBlocks(i) :
        \A k \in OpenBlocks(i) : pieces[i].blocks[j].begin <= pieces[i].blocks[k].begin

\* C34: a call of schedule_piece(p) does not fail; it returns the first open block of
\* a servable piece and marks it requested (changing nothing else), or it returns
\* nothing and changes nothing when no piece is servable.
C34_SelectionIsTotal ==
    [][\A p \in PeerIds :
          CallSchedulePiece(p) =>
              /\ ~sched_panic'
              /\ IF Servable(p) = {}
                 THEN last_ret' = <<>> /\ pieces' = pieces
                 ELSE \E i \in Servable(p) :
                         LET b == pieces[i].blocks[FirstOpen(i)]
                         IN  /\ last_ret' = <<i, b.begin, b.length>>
                             /\ pieces' = [pieces EXCEPT ![i].blocks[FirstOpen(i)].requested = TRUE]]_vars

-----------------------------------------------------------------------------
(* Block lookup *)

\* C35: when the dispatcher processes a PIECE for piece index at an offset inside the
\* piece, aligned or not, set_block marks the block at position offset div BLOCK_SIZE
\* completed, and no other.
C35_BlockLookupByDivision ==
    [][(/\ Dispatching("Piece")
        /\ Len(Head(receive_queue).payload) >= 2
        /\ Head(receive_queue).payload[1] \in DOMAIN pieces
        /\ Head(receive_queue).payload[2] < torrent.piece_length)
       => LET index == Head(receive_queue).payload[1]
              offset == Head(receive_queue).payload[2]
          IN  /\ (offset \div BLOCK_SIZE) \in DOMAIN pieces[index].blocks
              /\ pieces'[index].blocks[offset \div BLOCK_SIZE].completed]_vars

-----------------------------------------------------------------------------
(* Protocol flags *)

\* C36: a peer enters the map with am_choking = true, am_interested = false,
\* peer_choking = true, peer_interested = false; am_choking is true for every peer of
\* the map after every step, whatever the peers send; processing INTERESTED changes
\* nothing of the peer map but the sender's peer_interested, which it sets, and
\* processing NOT_INTERESTED nothing but the sender's peer_interested, which it clears.
C36_ProtocolFlags ==
    [][/\ \A p \in (DOMAIN peers') \ (DOMAIN peers) :
             /\ peers'[p].am_choking /\ ~peers'[p].am_interested
             /\ peers'[p].peer_choking /\ ~peers'[p].peer_interested
       /\ \A p \in DOMAIN peers' : peers'[p].am_choking
       /\ Dispatching("Interested")
             => peers' = [peers EXCEPT ![Head(receive_queue).peer].peer_interested = TRUE]
       /\ Dispatching("NotInterested")
             => peers' = [peers EXCEPT ![Head(receive_queue).peer].peer_interested = FALSE]]_vars

\* a peer whose INTERESTED was processed, and one that has since sent NOT_INTERESTED
C36_Witness ==
    \E p \in DOMAIN peers :
        /\ peers[p].peer_interested
        /\ \E q \in DOMAIN peers : q # p /\ Len(processed[q]) >= 2 /\ ~peers[q].peer_interested

-----------------------------------------------------------------------------
(* Availability *)

\* bit i of the bitfield stored for the peer (None has no bit set)
StoredBit(st, i) == st.bitfield # <<>> /\ i \in DOMAIN st.bitfield[1] /\ st.bitfield[1][i]

\* C37: in every reachable state, for every peer of the map and every piece i, the
\* peer's id is in piece i's peer set if and only if bit i of the peer's stored
\* bitfield is set.
C37_AvailabilityConsistent ==
    \A p \in DOMAIN peers : \A i \in DOMAIN pieces :
        (p \in pieces[i].peers) <=> StoredBit(peers[p], i)

-----------------------------------------------------------------------------
(* Peer locks *)

\* the inbound message numbered n waits in the receive queue or is held by the
\* dispatcher
Inbound(n) == \E k \in DOMAIN receive_queue : receive_queue[k].seq = n

\* the dispatcher has come to the end of its iteration for the inbound message n
Processed(n) == \E p \in PeerIds : \E k \in DOMAIN processed[p] : processed[p][k] = n

\* C38: every inbound message the dispatcher takes is processed to the end after
\* finitely many steps, whether or not its sender transmits anything further: the
\* dispatcher is never held up for ever by the reader or the writer keeping a peer's
\* lock while waiting on the peer's socket.
C38_DispatcherNeverStalls ==
    \A n \in 1..MaxLiveFrames : Inbound(n) ~> Processed(n)

-----------------------------------------------------------------------------
(* The writer and eviction *)

\* C39: when the peer the writer has just sent to was evicted (by the reader or the
\* dispatcher) before the writer updates its last_touch, the writer's next step does
\* not end the task: the writer is back in its loop, to drain the outbound queue for
\* the remaining peers.
C39_WriterSurvivesEviction ==
    [][(/\ writer_pc.pc = "ok"
        /\ writer_pc.peer \notin DOMAIN peers
        /\ writer_pc' # writer_pc)
       => writer_pc' = Loop]_vars

-----------------------------------------------------------------------------
(* Keep-alive *)

\* the KEEP-ALIVE messages for peer p pending in the outbound queue
PendingKeepAlives(q, p) ==
    Cardinality({k \in DOMAIN q : q[k].peer = p /\ q[k].id = "KeepAlive"})

\* C40: a visit of the keep-alive ticker to a peer idle for more than 60 seconds pushes
\* a KEEP-ALIVE for it, a visit to a peer idle for 60 seconds or less pushes nothing,
\* and at no time does the outbound queue hold more than one KEEP-ALIVE for one peer
\* (no second one is pushed before last_touch is refreshed).
C40_KeepAliveOncePerIdlePeriod ==
    [][/\ \A p \in PeerIds : PendingKeepAlives(send_queue', p) <= 1
       /\ clock'.todo # clock.todo
             => LET p == Head(clock.todo)
                IN  IF Idle(clock, p) > KEEP_ALIVE_SECS
                    THEN /\ Len(send_queue') = Len(send_queue) + 1
                         /\ send_queue'[Len(send_queue')].peer = p
                         /\ send_queue'[Len(send_queue')].id = "KeepAlive"
                    ELSE send_queue' = send_queue]_vars

====
